---- MODULE Spec2Model ----
(***************************************************************************)
(* State-machine model of PropertyCache (src/utils/property_cache.py): a  *)
(* two-tier TTL cache (in-memory dict + SQLite tables) with daily usage   *)
(* statistics.  One action per public method; every action is the whole   *)
(* method, including the statistics update it triggers.                   *)
(***************************************************************************)
EXTENDS Integers, Sequences, FiniteSets, TLC

VARIABLES
    now,                  \* wall clock (datetime.now()), in ticks
    gpt_analysis_cache,   \* table gpt_analysis_cache: content_hash -> row
    property_data_cache,  \* table property_data_cache: property_id -> row
    cache_stats,          \* table cache_stats: date -> row
    memory_cache,         \* self.memory_cache: content_hash -> result
    memory_cache_ttl,     \* self.memory_cache_ttl: content_hash -> expiry
    last,                 \* the call that just returned: op, args, ret, and
                          \* the branch of the code it took (path)
    ref_gpt,              \* reference facade without memory tier: its table
    ref_ret,              \* reference facade: what its last get returned
    bulk,                 \* a bulk_cache_properties call in progress: its
                          \* position, arguments and open transaction
    threads               \* per thread: the call it is in, the statement it
                          \* is at and the locals of the call

vars == <<now, gpt_analysis_cache, property_data_cache, cache_stats,
          memory_cache, memory_cache_ttl, last, ref_gpt, ref_ret, bulk,
          threads>>

refVars == <<ref_gpt, ref_ret>>

\* what the calls of the single sequential caller leave alone
auxVars == <<ref_gpt, ref_ret, bulk, threads>>

----------------------------------------------------------------------------
(* Bounds of the model *)

\* the clock runs from 0 to MaxTime ticks
MaxTime == 3
\* ticks of the clock per calendar day
TicksPerDay == 2
\* at most this many statistics events are recorded in a run
MaxEvents == 3

(* Configuration and program constants *)

\* self.ttl_days, the default ttl given to the constructor, in days
TtlDays == 1

\* request_data keeps content[:200]
ExcerptLen == 200
\* length of an md5 hexdigest
HashLen == 32
\* cost_per_token = 0.00001; cost_saved is kept in units of 10^-5
CostPerToken == 1

----------------------------------------------------------------------------
(* Input domains *)

None == <<"None">>

Contents == {<<"a">>, <<"a", "b">>}
Models == {<<"c">>, <<"b", "c">>}
\* the (content, model) pairs offered: "a"+"bc" and "ab"+"c" concatenate to
\* the same string, "a"+"c" to another
AnalysisKeys == {<<<<"a">>, <<"b", "c">>>>, <<<<"a", "b">>, <<"c">>>>,
                 <<<<"a">>, <<"c">>>>}

\* a picklable object (analysis result or entity payload); <<"lambda", "f">>
\* stands for an object that pickle.dumps rejects
Obj(x) == <<"obj", x>>
\* an optional ttl_days argument is <<>> when not given, <<d>> when given
\* the (analysis_result, token_count, ttl_days) triples offered
Analyses == {<<Obj("r1"), 2, <<>> >>, <<Obj("r2"), 3, <<2>> >>}
\* offered for one key only: a ttl_days of 0, and a result that cannot be
\* pickled
MoreAnalyses == {<<Obj("r1"), 2, <<0>> >>, <<<<"lambda", "f">>, 2, <<>> >>}

\* the days arguments offered to get_stats
StatsDays == {0, 1}

\* what can fail during a call: "db", the database (sqlite3.connect raises
\* for the call and for the _update_stats it makes); "stats", the statements
\* of _update_stats only; "loads", pickle.loads of the blob read
Faults == {"db", "stats", "loads"}

\* what can fail inside the transaction of bulk_cache_properties: "insert",
\* the INSERT OR REPLACE of the first item; "commit", the COMMIT
BulkFaults == {"insert", "commit"}

\* the (api_call, cache_hit, tokens_saved) arguments offered to _update_stats
Events ==
    {<<TRUE, FALSE, 0>>, <<FALSE, TRUE, 0>>, <<FALSE, TRUE, 3>>,
     <<TRUE, FALSE, 3>>, <<FALSE, FALSE, 0>>}

PropertyIds == {"p1", "p2"}
\* the (data, source_url, ttl_days) triples offered
Properties == {<<Obj("d1"), "u1", <<>> >>, <<Obj("d2"), "u2", <<2>> >>}
\* offered for one property only: a ttl_days of 0, and data that cannot be
\* pickled
MoreProperties == {<<Obj("d1"), "u1", <<0>> >>, <<<<"lambda", "f">>, "u1", <<>> >>}
\* the (properties, source_url) batches offered
Batches ==
    {<<[id \in {} |-> None], "u1">>,
     <<[id \in {"p1"} |-> Obj("d2")], "u1">>,
     <<[id \in {"p1", "p2"} |-> Obj("d1")], "u2">>,
     <<[id \in {"p1", "p2"} |-> IF id = "p1" THEN Obj("d1") ELSE Obj("d2")], "u1">>,
     <<[id \in {"p1", "p2"} |->
          IF id = "p1" THEN <<"lambda", "f">> ELSE Obj("d2")], "u2">>,
     <<[id \in {"p1", "p2"} |->
          IF id = "p1" THEN Obj("d2") ELSE <<"lambda", "f">>], "u1">>}

----------------------------------------------------------------------------
(* Python helpers *)

\* dict[k] = v
DictSet(d, k, v) == [x \in (DOMAIN d) \cup {k} |-> IF x = k THEN v ELSE d[x]]

\* del dict[k]
DictDel(d, k) == [x \in (DOMAIN d) \ {k} |-> d[x]]

EmptyDict == [x \in {} |-> None]

\* s[:n]
Prefix(s, n) == SubSeq(s, 1, IF Len(s) < n THEN Len(s) ELSE n)

\* a or b, for an optional integer a (None and 0 are falsy)
PyOr(a, b) == IF a = <<>> \/ a = <<0>> THEN b ELSE a[1]

\* pickle.dumps raises for objects that cannot be pickled
CanPickle(v) == v[1] = "obj"

\* pickle.dumps(v): the serialized blob
dumps(v) == <<"pkl", v[2]>>

\* pickle.loads(blob)
loads(b) == <<"obj", b[2]>>

\* datetime.isoformat(): date part, time-of-day part
isoformat(t) == <<t \div TicksPerDay, t % TicksPerDay>>

\* datetime.fromisoformat(text)
fromisoformat(s) == s[1] * TicksPerDay + s[2]

\* SQL text comparison a < b of two isoformat strings
IsoLess(a, b) == a[1] < b[1] \/ (a[1] = b[1] /\ a[2] < b[2])

\* datetime.strftime('%Y-%m-%d')
strftime(t) == t \div TicksPerDay

\* now + timedelta(days=d)
PlusDays(t, d) == t + d * TicksPerDay

----------------------------------------------------------------------------
(* _compute_hash: md5(content).hexdigest().  The digest is modelled as a   *)
(* fixed-length hexadecimal string computed from the characters of the    *)
(* input; on the bounded input domain it has no collisions, as md5 has    *)
(* none in practice.                                                      *)

CharCode(ch) == CASE ch = "a" -> 1 [] ch = "b" -> 2 [] ch = "c" -> 3

RECURSIVE StrNum(_)
StrNum(s) == IF s = <<>> THEN 0
             ELSE StrNum(SubSeq(s, 1, Len(s) - 1)) * 4 + CharCode(s[Len(s)])

HexChars == <<"0", "1", "2", "3", "4", "5", "6", "7",
              "8", "9", "a", "b", "c", "d", "e", "f">>

\* hex(n) without leading zeros
RECURSIVE HexOfUnpadded(_, _)
HexOfUnpadded(n, len) == IF len = 0 \/ n = 0 THEN <<>>
                         ELSE Append(HexOfUnpadded(n \div 16, len - 1), HexChars[(n % 16) + 1])

RECURSIVE HexOf(_, _)
HexOf(n, len) == IF len = 0 THEN <<>>
                 ELSE Append(HexOf(n \div 16, len - 1), HexChars[(n % 16) + 1])

\* the longest string offered to _compute_hash directly
MaxLen == 3

\* every string over the alphabet of at most n characters
RECURSIVE StringsUpTo(_)
StringsUpTo(n) ==
    IF n = 0 THEN {<<>>}
    ELSE LET shorter == StringsUpTo(n - 1)
         IN shorter \cup {Append(s, ch) : s \in shorter, ch \in {"a", "b", "c"}}

\* the strings offered to _compute_hash directly, the empty string included
HashInputs == StringsUpTo(MaxLen)

\* every string that is hashed
HashedStrings == {k[1] \o k[2] : k \in Contents \X Models} \cup HashInputs

\* (variant: the digest printed as a number, without the leading zeros of
\* hexdigest)
Md5Unpadded == [s \in HashedStrings |-> HexOfUnpadded(StrNum(s), HashLen)]

\* the digests, computed once
Md5 == [s \in HashedStrings |-> HexOf(StrNum(s), HashLen)]

compute_hash(content) == Md5[content]

\* a direct call of _compute_hash, as the unit test makes
compute_hash_call(content) ==
    /\ UNCHANGED <<now, gpt_analysis_cache, property_data_cache, cache_stats,
                   memory_cache, memory_cache_ttl>>
    /\ last' = [op |-> "_compute_hash", args |-> <<content>>,
                ret |-> compute_hash(content), path |-> <<>>]

----------------------------------------------------------------------------
(* _update_stats *)

RECURSIVE SumOver(_, _, _)
SumOver(f, S, col) == IF S = {} THEN 0
                      ELSE LET x == CHOOSE y \in S : TRUE
                           IN f[x][col] + SumOver(f, S \ {x}, col)

\* number of events recorded so far, over all dates
TotalEvents(stats) == SumOver(stats, DOMAIN stats, "api_calls")
                      + SumOver(stats, DOMAIN stats, "cache_hits")

\* (variant: the INSERT writes the api_call flag into both counters)
NewStatRowFlagSlip(api_call, cache_hit, tokens_saved, cost_saved) ==
    [api_calls |-> IF api_call THEN 1 ELSE 0,
     cache_hits |-> IF api_call THEN 1 ELSE 0,
     tokens_saved |-> tokens_saved,
     cost_saved |-> cost_saved]

\* INSERT INTO cache_stats: the row of a date that had none
NewStatRow(api_call, cache_hit, tokens_saved, cost_saved) ==
    [api_calls |-> IF api_call THEN 1 ELSE 0,
     cache_hits |-> IF cache_hit THEN 1 ELSE 0,
     tokens_saved |-> tokens_saved,
     cost_saved |-> cost_saved]

\* (variant: the UPDATE for a cache hit increments api_calls)
BumpStatRowColumnSlip(row, api_call, cache_hit, tokens_saved, cost_saved) ==
    LET r1 == IF api_call THEN [row EXCEPT !.api_calls = @ + 1] ELSE row
    IN IF cache_hit
       THEN [r1 EXCEPT !.api_calls = @ + 1,
                       !.tokens_saved = @ + tokens_saved,
                       !.cost_saved = @ + cost_saved]
       ELSE r1

\* UPDATE cache_stats SET ...: the row of a date that has one
BumpStatRow(row, api_call, cache_hit, tokens_saved, cost_saved) ==
    LET r1 == IF api_call THEN [row EXCEPT !.api_calls = @ + 1] ELSE row
    IN IF cache_hit
       THEN [r1 EXCEPT !.cache_hits = @ + 1,
                       !.tokens_saved = @ + tokens_saved,
                       !.cost_saved = @ + cost_saved]
       ELSE r1

\* (variant: INSERT OR REPLACE of a fresh row whether or not the date has one)
update_stats_replace(stats, t, api_call, cache_hit, tokens_saved) ==
    DictSet(stats, strftime(t),
            NewStatRow(api_call, cache_hit, tokens_saved,
                       tokens_saved * CostPerToken))

\* the cache_stats table after _update_stats(api_call, cache_hit, tokens_saved)
\* called at time t
update_stats(stats, t, api_call, cache_hit, tokens_saved) ==
    LET today == strftime(t)
        cost_saved == tokens_saved * CostPerToken
    IN IF today \in DOMAIN stats
       THEN DictSet(stats, today,
                    BumpStatRow(stats[today], api_call, cache_hit,
                                tokens_saved, cost_saved))
       ELSE DictSet(stats, today,
                    NewStatRow(api_call, cache_hit, tokens_saved, cost_saved))

----------------
(* The record of a call *)

Call(op, args, ret, path) ==
    [op |-> op, args |-> args, ret |-> ret, path |-> path]

Returns(call) == last' = call

----------------------------------------------------------------------------
(* get_gpt_analysis *)

\* (variant: the entry is still served at the instant it expires)
IsLiveAtExpiry(t, expires_at) == t <= expires_at

\* datetime.now() < expires_at
IsLive(t, expires_at) == t < expires_at

\* (variant: the comparison with the expiry is inverted)
MemoryLiveInverted(cache, cache_ttl, t, h) ==
    /\ h \in DOMAIN cache
    /\ (IF h \in DOMAIN cache_ttl THEN cache_ttl[h] ELSE t) < t

\* the entry of the memory cache is present and not expired
\* (memory_cache_ttl.get(h, now) is now when the key is missing)
MemoryLive(cache, cache_ttl, t, h) ==
    /\ h \in DOMAIN cache
    /\ IsLive(t, IF h \in DOMAIN cache_ttl THEN cache_ttl[h] ELSE t)

\* SELECT ... WHERE content_hash = ? AND model = ?
SelectAnalysis(table, h, model) == h \in DOMAIN table /\ table[h].model = model

\* What get_gpt_analysis(content, model) does at time t on a facade with the
\* given table, memory cache and statistics: the value it returns and the
\* table, memory cache and statistics it leaves.
AnalysisLookup(table, cache, cache_ttl, stats, t, content, model) ==
    LET content_hash == compute_hash(content \o model)
        same == [ret |-> None, table |-> table, cache |-> cache,
                 cache_ttl |-> cache_ttl, stats |-> stats,
                 path |-> <<"none", "miss">>]
        \* what the probe of the memory cache found
        probe == IF content_hash \in DOMAIN cache THEN "stale" ELSE "none"
    IN IF MemoryLive(cache, cache_ttl, t, content_hash)
       THEN \* memory hit: _update_stats(cache_hit=True)
            [same EXCEPT
                !.path = <<"hit", "skipped">>,
                !.ret = cache[content_hash],
                !.stats = update_stats(stats, t, FALSE, TRUE, 0)]
       ELSE IF content_hash \in DOMAIN cache
               /\ content_hash \notin DOMAIN cache_ttl
       THEN \* del memory_cache_ttl[content_hash] raises KeyError
            [same EXCEPT
                !.path = <<"stale", "skipped">>,
                !.ret = <<"KeyError">>,
                !.cache = DictDel(cache, content_hash)]
       ELSE LET mc == DictDel(cache, content_hash)
                mt == DictDel(cache_ttl, content_hash)
            IN IF SelectAnalysis(table, content_hash, model)
               THEN LET row == table[content_hash]
                        expires_at == fromisoformat(row.expires_at)
                        analysis_result == loads(row.response_data)
                    IN IF IsLive(t, expires_at)
                       THEN [same EXCEPT
                               !.path = <<probe, "hit">>,
                               !.ret = analysis_result,
                               !.cache = DictSet(mc, content_hash,
                                                 analysis_result),
                               !.cache_ttl = DictSet(mt, content_hash,
                                                     expires_at),
                               !.stats = update_stats(stats, t, FALSE, TRUE,
                                                      row.token_count)]
                       ELSE \* expired: DELETE ... WHERE content_hash = ?
                            [same EXCEPT
                               !.path = <<probe, "expired">>,
                               !.table = DictDel(table, content_hash),
                               !.cache = mc,
                               !.cache_ttl = mt]
               ELSE [same EXCEPT !.path = <<probe, "miss">>,
                                 !.cache = mc, !.cache_ttl = mt]

\* get_gpt_analysis(content, model) in the current state
analysis_lookup(content, model) ==
    AnalysisLookup(gpt_analysis_cache, memory_cache, memory_cache_ttl,
                   cache_stats, now, content, model)

\* (variant: every lookup is recorded in the statistics, hit or not)
get_gpt_analysis_counted(content, model) ==
    LET o == analysis_lookup(content, model)
    IN /\ TotalEvents(cache_stats) < MaxEvents
       /\ gpt_analysis_cache' = o.table
       /\ memory_cache' = o.cache
       /\ memory_cache_ttl' = o.cache_ttl
       /\ cache_stats' = IF o.stats = cache_stats
                         THEN update_stats(cache_stats, now, FALSE, FALSE, 0)
                         ELSE o.stats
       /\ UNCHANGED <<now, property_data_cache>>
       /\ Returns(Call("get_gpt_analysis", <<content, model>>, o.ret, o.path))

get_gpt_analysis(content, model) ==
    LET o == analysis_lookup(content, model)
    IN /\ TotalEvents(cache_stats) < MaxEvents
       /\ gpt_analysis_cache' = o.table
       /\ memory_cache' = o.cache
       /\ memory_cache_ttl' = o.cache_ttl
       /\ cache_stats' = o.stats
       /\ UNCHANGED <<now, property_data_cache>>
       /\ Returns(Call("get_gpt_analysis", <<content, model>>, o.ret, o.path))

----------------
(* cache_gpt_analysis *)

\* the row written by INSERT OR REPLACE INTO gpt_analysis_cache
\* (variant: created_at and expires_at bound to each other's placeholder)
AnalysisRowSwapped(content, model, analysis_result, token_count, t, expires_at) ==
    [request_data |-> Prefix(content, ExcerptLen),
     response_data |-> dumps(analysis_result),
     created_at |-> isoformat(expires_at),
     expires_at |-> isoformat(t),
     model |-> model,
     token_count |-> token_count]

\* the row INSERT OR REPLACE writes into gpt_analysis_cache
AnalysisRow(content, model, analysis_result, token_count, t, expires_at) ==
    [request_data |-> Prefix(content, ExcerptLen),
     response_data |-> dumps(analysis_result),
     created_at |-> isoformat(t),
     expires_at |-> isoformat(expires_at),
     model |-> model,
     token_count |-> token_count]

\* (variant: the memory cache receives the pickled bytes, not the result)
AnalysisStoreBlob(table, cache, cache_ttl, stats, t, content, model, analysis_result, token_count, ttl_days) ==
    LET content_hash == compute_hash(content \o model)
        ttl == PyOr(ttl_days, TtlDays)
        expires_at == PlusDays(t, ttl)
    IN IF CanPickle(analysis_result)
       THEN [ret |-> TRUE,
             table |-> DictSet(table, content_hash,
                               AnalysisRow(content, model, analysis_result,
                                           token_count, t, expires_at)),
             cache |-> DictSet(cache, content_hash, dumps(analysis_result)),
             cache_ttl |-> DictSet(cache_ttl, content_hash, expires_at),
             stats |-> update_stats(stats, t, TRUE, FALSE, 0)]
       ELSE [ret |-> FALSE, table |-> table, cache |-> cache,
             cache_ttl |-> cache_ttl, stats |-> stats]

\* (variant: the memory cache is filled with setdefault, so a replacing put
\* leaves the entry of the earlier put in memory)
AnalysisStoreSetDefault(table, cache, cache_ttl, stats, t, content, model, analysis_result, token_count, ttl_days) ==
    LET content_hash == compute_hash(content \o model)
        ttl == PyOr(ttl_days, TtlDays)
        expires_at == PlusDays(t, ttl)
    IN IF CanPickle(analysis_result)
       THEN [ret |-> TRUE,
             table |-> DictSet(table, content_hash,
                               AnalysisRow(content, model, analysis_result,
                                           token_count, t, expires_at)),
             cache |-> IF content_hash \in DOMAIN cache THEN cache
                       ELSE DictSet(cache, content_hash, analysis_result),
             cache_ttl |-> IF content_hash \in DOMAIN cache_ttl THEN cache_ttl
                           ELSE DictSet(cache_ttl, content_hash, expires_at),
             stats |-> update_stats(stats, t, TRUE, FALSE, 0)]
       ELSE [ret |-> FALSE, table |-> table, cache |-> cache,
             cache_ttl |-> cache_ttl, stats |-> stats]

\* What cache_gpt_analysis does at time t on a facade with the given table,
\* memory cache and statistics: the value it returns and what it leaves.
AnalysisStore(table, cache, cache_ttl, stats, t, content, model, analysis_result, token_count, ttl_days) ==
    LET content_hash == compute_hash(content \o model)
        ttl == PyOr(ttl_days, TtlDays)
        expires_at == PlusDays(t, ttl)
    IN IF CanPickle(analysis_result)
       THEN [ret |-> TRUE,
             table |-> DictSet(table, content_hash,
                               AnalysisRow(content, model, analysis_result,
                                           token_count, t, expires_at)),
             cache |-> DictSet(cache, content_hash, analysis_result),
             cache_ttl |-> DictSet(cache_ttl, content_hash, expires_at),
             stats |-> update_stats(stats, t, TRUE, FALSE, 0)]
       ELSE \* pickle.dumps raised: logged, False returned
            [ret |-> FALSE, table |-> table, cache |-> cache,
             cache_ttl |-> cache_ttl, stats |-> stats]

cache_gpt_analysis(content, model, analysis_result, token_count, ttl_days) ==
    LET o == AnalysisStore(gpt_analysis_cache, memory_cache, memory_cache_ttl,
                           cache_stats, now, content, model, analysis_result,
                           token_count, ttl_days)
        args == <<content, model, analysis_result, token_count, ttl_days>>
    IN /\ TotalEvents(cache_stats) < MaxEvents
       /\ gpt_analysis_cache' = o.table
       /\ memory_cache' = o.cache
       /\ memory_cache_ttl' = o.cache_ttl
       /\ cache_stats' = o.stats
       /\ UNCHANGED <<now, property_data_cache>>
       /\ Returns(Call("cache_gpt_analysis", args, o.ret,
                       IF ~o.ret THEN <<"failed">>
                       ELSE IF compute_hash(content \o model) \in DOMAIN gpt_analysis_cache
                            THEN <<"stored", "replaced">>
                            ELSE <<"stored", "inserted">>))

----------------
(* get_property_data *)

\* (variant: an expired row is reported absent but not deleted)
property_lookup_keep(property_id) ==
    IF property_id \in DOMAIN property_data_cache
    THEN LET row == property_data_cache[property_id]
             expires_at == fromisoformat(row.expires_at)
         IN IF IsLive(now, expires_at)
            THEN [ret |-> loads(row.data), path |-> <<"hit">>,
                  table |-> [property_data_cache EXCEPT
                               ![property_id].last_accessed = isoformat(now)]]
            ELSE [ret |-> None, path |-> <<"expired">>,
                  table |-> property_data_cache]
    ELSE [ret |-> None, path |-> <<"miss">>, table |-> property_data_cache]

\* (variant: a hit renews the row's expiry along with last_accessed)
property_lookup_sliding(property_id) ==
    IF property_id \in DOMAIN property_data_cache
    THEN LET row == property_data_cache[property_id]
             expires_at == fromisoformat(row.expires_at)
         IN IF IsLive(now, expires_at)
            THEN [ret |-> loads(row.data), path |-> <<"hit">>,
                  table |-> [property_data_cache EXCEPT
                               ![property_id].last_accessed = isoformat(now),
                               ![property_id].expires_at =
                                   isoformat(PlusDays(now, TtlDays))]]
            ELSE [ret |-> None, path |-> <<"expired">>,
                  table |-> DictDel(property_data_cache, property_id)]
    ELSE [ret |-> None, path |-> <<"miss">>, table |-> property_data_cache]

\* What get_property_data(property_id) does in the current state: the value
\* it returns and the table it leaves.
property_lookup(property_id) ==
    IF property_id \in DOMAIN property_data_cache
    THEN LET row == property_data_cache[property_id]
             expires_at == fromisoformat(row.expires_at)
         IN IF IsLive(now, expires_at)
            THEN [ret |-> loads(row.data), path |-> <<"hit">>,
                  table |-> [property_data_cache EXCEPT
                               ![property_id].last_accessed = isoformat(now)]]
            ELSE [ret |-> None, path |-> <<"expired">>,
                  table |-> DictDel(property_data_cache, property_id)]
    ELSE [ret |-> None, path |-> <<"miss">>, table |-> property_data_cache]

\* (variant: a hit is recorded with _update_stats(cache_hit=True))
get_property_data_counted(property_id) ==
    LET o == property_lookup(property_id)
    IN /\ property_data_cache' = o.table
       /\ cache_stats' = (IF o.path = <<"hit">>
                          THEN update_stats(cache_stats, now, FALSE, TRUE, 0)
                          ELSE cache_stats)
       /\ UNCHANGED <<now, gpt_analysis_cache, memory_cache, memory_cache_ttl>>
       /\ Returns(Call("get_property_data", <<property_id>>, o.ret, o.path))

\* (variant: the hit returns the payload without the UPDATE of last_accessed)
get_property_data_untouched(property_id) ==
    LET o == property_lookup(property_id)
    IN /\ property_data_cache' =
             (IF o.path = <<"hit">> THEN property_data_cache ELSE o.table)
       /\ UNCHANGED <<now, gpt_analysis_cache, cache_stats, memory_cache,
                      memory_cache_ttl>>
       /\ Returns(Call("get_property_data", <<property_id>>, o.ret, o.path))

get_property_data(property_id) ==
    LET o == property_lookup(property_id)
    IN /\ property_data_cache' = o.table
       /\ UNCHANGED <<now, gpt_analysis_cache, cache_stats, memory_cache,
                      memory_cache_ttl>>
       /\ Returns(Call("get_property_data", <<property_id>>, o.ret, o.path))

----------------
(* cache_property_data *)

\* (variant: created_at and expires_at are bound in the wrong order)
PropertyRowSwapped(data, source_url, t, expires_at) ==
    [data |-> dumps(data),
     source_url |-> source_url,
     created_at |-> isoformat(expires_at),
     expires_at |-> isoformat(t),
     last_accessed |-> isoformat(t)]

\* the row written by INSERT OR REPLACE INTO property_data_cache
PropertyRow(data, source_url, t, expires_at) ==
    [data |-> dumps(data),
     source_url |-> source_url,
     created_at |-> isoformat(t),
     expires_at |-> isoformat(expires_at),
     last_accessed |-> isoformat(t)]

\* (variant: INSERT OR IGNORE, a row already stored under the id is kept)
cache_property_data_ignore(property_id, data, source_url, ttl_days) ==
    LET ttl == PyOr(ttl_days, TtlDays)
        expires_at == PlusDays(now, ttl)
        args == <<property_id, data, source_url, ttl_days>>
    IN /\ UNCHANGED <<now, gpt_analysis_cache, cache_stats, memory_cache,
                      memory_cache_ttl>>
       /\ IF CanPickle(data)
          THEN /\ property_data_cache' =
                     (IF property_id \in DOMAIN property_data_cache
                      THEN property_data_cache
                      ELSE DictSet(property_data_cache, property_id,
                                   PropertyRow(data, source_url, now,
                                               expires_at)))
               /\ Returns(Call("cache_property_data", args, TRUE,
                               IF property_id \in DOMAIN property_data_cache
                               THEN <<"stored", "replaced">>
                               ELSE <<"stored", "inserted">>))
          ELSE /\ UNCHANGED property_data_cache
               /\ Returns(Call("cache_property_data", args, FALSE, <<"failed">>))

cache_property_data(property_id, data, source_url, ttl_days) ==
    LET ttl == PyOr(ttl_days, TtlDays)
        expires_at == PlusDays(now, ttl)
        args == <<property_id, data, source_url, ttl_days>>
    IN /\ UNCHANGED <<now, gpt_analysis_cache, cache_stats, memory_cache,
                      memory_cache_ttl>>
       /\ IF CanPickle(data)
          THEN /\ property_data_cache' =
                     DictSet(property_data_cache, property_id,
                             PropertyRow(data, source_url, now, expires_at))
               /\ Returns(Call("cache_property_data", args, TRUE,
                               IF property_id \in DOMAIN property_data_cache
                               THEN <<"stored", "replaced">>
                               ELSE <<"stored", "inserted">>))
          ELSE /\ UNCHANGED property_data_cache
               /\ Returns(Call("cache_property_data", args, FALSE, <<"failed">>))

----------------------------------------------------------------------------
(* bulk_cache_properties: properties is a dict property_id -> data *)

\* properties.items(): the ids of the dict in insertion order
ItemOrder == <<"p1", "p2">>

items(properties) == SelectSeq(ItemOrder, LAMBDA id : id \in DOMAIN properties)

\* variant: success_count += 1 placed after the inner try/except
BulkItemCounted(acc, property_id, data, source_url, t, expires_at) ==
    IF CanPickle(data)
    THEN [table |-> DictSet(acc.table, property_id,
                            PropertyRow(data, source_url, t, expires_at)),
          success_count |-> acc.success_count + 1]
    ELSE [acc EXCEPT !.success_count = @ + 1]

\* the body of the for loop: pickle.dumps, INSERT OR REPLACE and
\* success_count += 1 inside the inner try; a failing item is logged and
\* skipped
BulkItem(acc, property_id, data, source_url, t, expires_at) ==
    IF CanPickle(data)
    THEN [table |-> DictSet(acc.table, property_id,
                            PropertyRow(data, source_url, t, expires_at)),
          success_count |-> acc.success_count + 1]
    ELSE acc

RECURSIVE BulkLoop(_, _, _, _, _, _)
\* for property_id, data in properties.items(): ...
BulkLoop(acc, ids, properties, source_url, t, expires_at) ==
    IF ids = <<>>
    THEN acc
    ELSE BulkLoop(BulkItem(acc, Head(ids), properties[Head(ids)], source_url,
                           t, expires_at),
                  Tail(ids), properties, source_url, t, expires_at)

\* the table the transaction commits and the success_count it returns
BulkOutcome(table, properties, source_url, t) ==
    BulkLoop([table |-> table, success_count |-> 0], items(properties),
             properties, source_url, t, PlusDays(t, TtlDays))

bulk_cache_properties(properties, source_url) ==
    LET total_count == Cardinality(DOMAIN properties)
        o == BulkOutcome(property_data_cache, properties, source_url, now)
    IN /\ UNCHANGED <<now, gpt_analysis_cache, cache_stats, memory_cache,
                      memory_cache_ttl>>
       /\ property_data_cache' = o.table
       /\ Returns(Call("bulk_cache_properties", <<properties, source_url>>,
                       <<o.success_count, total_count>>, <<"committed">>))

----------------
(* bulk_cache_properties statement by statement, run by one caller while   *)
(* another connection reads property_data_cache                            *)

\* no call in progress
NoBulk ==
    [pc |-> "idle", properties |-> EmptyDict, source_url |-> "", t |-> 0,
     ids |-> <<>>, pre |-> EmptyDict,
     acc |-> [table |-> EmptyDict, success_count |-> 0]]

\* cursor.execute("BEGIN TRANSACTION"); now = datetime.now().  The
\* transaction works on its own view of the table, acc.table; pre is the
\* committed table it started from.
bulk_begin(properties, source_url) ==
    /\ bulk.pc = "idle"
    /\ bulk' = [pc |-> "open", properties |-> properties,
                source_url |-> source_url, t |-> now,
                ids |-> items(properties), pre |-> property_data_cache,
                acc |-> [table |-> property_data_cache, success_count |-> 0]]
    /\ UNCHANGED <<now, gpt_analysis_cache, property_data_cache, cache_stats,
                   memory_cache, memory_cache_ttl, last>>

\* one pass of the for loop inside the transaction
bulk_item ==
    /\ bulk.pc = "open"
    /\ bulk.ids # <<>>
    /\ bulk' = [bulk EXCEPT
                  !.ids = Tail(@),
                  !.acc = BulkItem(@, Head(bulk.ids),
                                   bulk.properties[Head(bulk.ids)],
                                   bulk.source_url, bulk.t,
                                   PlusDays(bulk.t, TtlDays))]
    /\ UNCHANGED <<now, gpt_analysis_cache, property_data_cache, cache_stats,
                   memory_cache, memory_cache_ttl, last>>

\* cursor.execute("COMMIT"); return (success_count, total_count)
bulk_commit ==
    /\ bulk.pc = "open"
    /\ bulk.ids = <<>>
    /\ property_data_cache' = bulk.acc.table
    /\ bulk' = NoBulk
    /\ UNCHANGED <<now, gpt_analysis_cache, cache_stats, memory_cache,
                   memory_cache_ttl>>
    /\ Returns(Call("bulk_cache_properties",
                    <<bulk.properties, bulk.source_url>>,
                    <<bulk.acc.success_count,
                      Cardinality(DOMAIN bulk.properties)>>,
                    <<"committed">>))

\* (variant: the reader's connection sees the rows of the open transaction)
TxnVisibleDirty(committed, txn) == IF txn.pc = "open" THEN txn.acc.table ELSE committed

\* the rows of property_data_cache another connection's SELECT sees: the
\* committed ones; the INSERTs between BEGIN TRANSACTION and COMMIT are not
\* among them
TxnVisible(committed, txn) == committed

\* the SELECT of a concurrent reader (the query of get_property_data, over
\* every property_id)
select_properties ==
    /\ UNCHANGED <<now, gpt_analysis_cache, property_data_cache, cache_stats,
                   memory_cache, memory_cache_ttl, bulk>>
    /\ Returns(Call("select_properties", <<>>,
                    TxnVisible(property_data_cache, bulk), <<>>))

----------------------------------------------------------------------------
(* clean_expired_cache *)

\* variant: DELETE FROM table WHERE expires_at <= ?
ExpiredKeysAtNow(table, now_iso) ==
    {k \in DOMAIN table : ~IsoLess(now_iso, table[k].expires_at)}

\* DELETE FROM table WHERE expires_at < ?  : the keys deleted
ExpiredKeys(table, now_iso) ==
    {k \in DOMAIN table : IsoLess(table[k].expires_at, now_iso)}

clean_expired_cache ==
    LET now_iso == isoformat(now)
        gone_gpt == ExpiredKeys(gpt_analysis_cache, now_iso)
        gone_prop == ExpiredKeys(property_data_cache, now_iso)
        cleaned_count == Cardinality(gone_gpt) + Cardinality(gone_prop)
    IN /\ gpt_analysis_cache' =
             [k \in (DOMAIN gpt_analysis_cache) \ gone_gpt |->
                 gpt_analysis_cache[k]]
       /\ property_data_cache' =
             [k \in (DOMAIN property_data_cache) \ gone_prop |->
                 property_data_cache[k]]
       /\ UNCHANGED <<now, cache_stats, memory_cache, memory_cache_ttl>>
       /\ Returns(Call("clean_expired_cache", <<>>, cleaned_count, <<>>))

----------------------------------------------------------------------------
(* clear_memory_cache *)

\* (variant: memory_cache_ttl.clear() is missing)
clear_memory_cache_values_only ==
    LET cache_size == Cardinality(DOMAIN memory_cache)
    IN /\ memory_cache' = EmptyDict
       /\ UNCHANGED <<now, gpt_analysis_cache, property_data_cache, cache_stats,
                      memory_cache_ttl>>
       /\ Returns(Call("clear_memory_cache", <<>>, None,
                       [i \in 1..cache_size |-> "released"]))

\* The method returns None; the number of entries released goes to the log
\* line only.  path records that line: one "released" per entry counted by
\* cache_size = len(self.memory_cache).
clear_memory_cache ==
    LET cache_size == Cardinality(DOMAIN memory_cache)
    IN /\ memory_cache' = EmptyDict
       /\ memory_cache_ttl' = EmptyDict
       /\ UNCHANGED <<now, gpt_analysis_cache, property_data_cache, cache_stats>>
       /\ Returns(Call("clear_memory_cache", <<>>, None,
                       [i \in 1..cache_size |-> "released"]))

----------------------------------------------------------------------------
(* get_stats *)

\* (variant: WHERE date > ?)
StatDatesAfter(stats, start_date) == {d \in DOMAIN stats : d > start_date}

\* SELECT SUM(...) FROM cache_stats WHERE date >= ?  : the dates summed
StatDates(stats, start_date) == {d \in DOMAIN stats : d >= start_date}

\* the dict returned by get_stats(days); hit_rate is the pair
\* <<numerator, denominator>>, and <<0, 1>> when there was no request
StatsReport(stats, t, days) ==
    LET start_date == strftime(t - days * TicksPerDay)
        dates == StatDates(stats, start_date)
        api_calls == SumOver(stats, dates, "api_calls")
        cache_hits == SumOver(stats, dates, "cache_hits")
        total_requests == api_calls + cache_hits
    IN [period_days |-> days,
        api_calls |-> api_calls,
        cache_hits |-> cache_hits,
        total_requests |-> total_requests,
        hit_rate |-> IF total_requests > 0
                     THEN <<cache_hits, total_requests>>
                     ELSE <<0, 1>>,
        tokens_saved |-> SumOver(stats, dates, "tokens_saved"),
        cost_saved |-> SumOver(stats, dates, "cost_saved")]

get_stats(days) ==
    /\ UNCHANGED <<now, gpt_analysis_cache, property_data_cache, cache_stats,
                   memory_cache, memory_cache_ttl>>
    /\ Returns(Call("get_stats", <<days>>,
                    StatsReport(cache_stats, now, days), <<>>))

----------------------------------------------------------------------------
(* _update_stats called directly *)

update_stats_call(api_call, cache_hit, tokens_saved) ==
    /\ TotalEvents(cache_stats) < MaxEvents
    /\ cache_stats' = update_stats(cache_stats, now, api_call, cache_hit,
                                   tokens_saved)
    /\ UNCHANGED <<now, gpt_analysis_cache, property_data_cache, memory_cache,
                   memory_cache_ttl>>
    /\ Returns(Call("_update_stats", <<api_call, cache_hit, tokens_saved>>,
                    None, <<>>))

----------------------------------------------------------------------------
(* The public methods when the storage layer or the serializer fails.     *)
(* Each action is the method with the named fault striking it; it is       *)
(* enabled when the call reaches the failing statement.                    *)

\* (variant: no except clause, the exception leaves the method)
Uncaught(value) == [exit |-> "raised", ret |-> None]

\* except Exception as e: logger.error(...); return value
Caught(value) == [exit |-> "returned", ret |-> value]

\* a normal return
Returned(value) == [exit |-> "returned", ret |-> value]

\* the memory cache after the probe of lines 114-122: a stale entry is gone
Probed(cache, probe, content_hash) ==
    IF probe = "stale" THEN DictDel(cache, content_hash) ELSE cache

get_gpt_analysis_failing(content, model, fault) ==
    LET ok == analysis_lookup(content, model)
        content_hash == compute_hash(content \o model)
        memory_hit == ok.path = <<"hit", "skipped">>
        durable_hit == ok.path[2] = "hit"
        \* the hit is served, the failure stays inside _update_stats
        served == [out |-> Returned(ok.ret), cache |-> ok.cache,
                   cache_ttl |-> ok.cache_ttl]
        \* the exception reaches the except clause of get_gpt_analysis
        failed == [out |-> Caught(None),
                   cache |-> Probed(memory_cache, ok.path[1], content_hash),
                   cache_ttl |-> Probed(memory_cache_ttl, ok.path[1],
                                        content_hash)]
        o == IF memory_hit \/ fault = "stats" THEN served ELSE failed
    IN /\ TotalEvents(cache_stats) < MaxEvents
       /\ ok.path # <<"stale", "skipped">>
       /\ \/ fault = "db"
          \/ fault = "stats" /\ (memory_hit \/ durable_hit)
          \/ fault = "loads" /\ durable_hit
       /\ memory_cache' = o.cache
       /\ memory_cache_ttl' = o.cache_ttl
       /\ UNCHANGED <<now, gpt_analysis_cache, property_data_cache,
                      cache_stats>>
       /\ Returns(Call("get_gpt_analysis", <<content, model>>, o.out.ret,
                       <<fault, o.out.exit>>))

\* (variant: the memory cache is written before the INSERT is attempted)
cache_gpt_analysis_failing_memory_first(content, model, analysis_result, token_count, ttl_days, fault) ==
    LET ok == AnalysisStore(gpt_analysis_cache, memory_cache, memory_cache_ttl,
                            cache_stats, now, content, model, analysis_result,
                            token_count, ttl_days)
        args == <<content, model, analysis_result, token_count, ttl_days>>
    IN /\ TotalEvents(cache_stats) < MaxEvents
       /\ \/ /\ fault = "db"
             /\ UNCHANGED gpt_analysis_cache
             /\ memory_cache' = ok.cache
             /\ memory_cache_ttl' = ok.cache_ttl
             /\ Returns(Call("cache_gpt_analysis", args, Caught(FALSE).ret,
                             <<fault, Caught(FALSE).exit>>))
          \/ /\ fault = "stats"
             /\ ok.ret
             /\ gpt_analysis_cache' = ok.table
             /\ memory_cache' = ok.cache
             /\ memory_cache_ttl' = ok.cache_ttl
             /\ Returns(Call("cache_gpt_analysis", args, TRUE,
                             <<fault, "returned">>))
       /\ UNCHANGED <<now, property_data_cache, cache_stats>>

cache_gpt_analysis_failing(content, model, analysis_result, token_count, ttl_days, fault) ==
    LET ok == AnalysisStore(gpt_analysis_cache, memory_cache, memory_cache_ttl,
                            cache_stats, now, content, model, analysis_result,
                            token_count, ttl_days)
        args == <<content, model, analysis_result, token_count, ttl_days>>
    IN /\ TotalEvents(cache_stats) < MaxEvents
       /\ \/ /\ fault = "db"
             /\ UNCHANGED <<gpt_analysis_cache, memory_cache, memory_cache_ttl>>
             /\ Returns(Call("cache_gpt_analysis", args, Caught(FALSE).ret,
                             <<fault, Caught(FALSE).exit>>))
          \/ /\ fault = "stats"
             /\ ok.ret
             /\ gpt_analysis_cache' = ok.table
             /\ memory_cache' = ok.cache
             /\ memory_cache_ttl' = ok.cache_ttl
             /\ Returns(Call("cache_gpt_analysis", args, TRUE,
                             <<fault, "returned">>))
       /\ UNCHANGED <<now, property_data_cache, cache_stats>>

get_property_data_failing(property_id, fault) ==
    LET ok == property_lookup(property_id)
    IN /\ \/ /\ fault = "db"
             /\ UNCHANGED property_data_cache
          \/ /\ fault = "loads"
             /\ ok.path = <<"hit">>
             \* last_accessed is updated and committed before pickle.loads
             /\ property_data_cache' = ok.table
       /\ UNCHANGED <<now, gpt_analysis_cache, cache_stats, memory_cache,
                      memory_cache_ttl>>
       /\ Returns(Call("get_property_data", <<property_id>>, Caught(None).ret,
                       <<fault, Caught(None).exit>>))

cache_property_data_failing(property_id, data, source_url, ttl_days, fault) ==
    /\ fault = "db"
    /\ UNCHANGED <<now, gpt_analysis_cache, property_data_cache, cache_stats,
                   memory_cache, memory_cache_ttl>>
    /\ Returns(Call("cache_property_data",
                    <<property_id, data, source_url, ttl_days>>,
                    Caught(FALSE).ret, <<fault, Caught(FALSE).exit>>))

\* sqlite3.connect or BEGIN TRANSACTION raises: the outer except returns
\* (success_count, total_count) with success_count still 0
bulk_cache_properties_failing(properties, source_url, fault) ==
    LET out == Caught(<<0, Cardinality(DOMAIN properties)>>)
    IN /\ fault = "db"
       /\ UNCHANGED <<now, gpt_analysis_cache, property_data_cache,
                      cache_stats, memory_cache, memory_cache_ttl>>
       /\ Returns(Call("bulk_cache_properties", <<properties, source_url>>,
                       out.ret, <<fault, out.exit>>))

\* a failure inside the transaction.  A failing INSERT is caught by the inner
\* except: the item is skipped and the loop goes on.  A failing COMMIT leaves
\* the with block through the outer except: the connection rolls the
\* transaction back and the counts reached so far are returned.
bulk_cache_properties_aborting(properties, source_url, fault) ==
    LET total_count == Cardinality(DOMAIN properties)
        first == Head(items(properties))
        rest == [id \in (DOMAIN properties) \ {first} |-> properties[id]]
        done == BulkOutcome(property_data_cache, properties, source_url, now)
        skipped == BulkOutcome(property_data_cache, rest, source_url, now)
    IN /\ properties # EmptyDict
       /\ UNCHANGED <<now, gpt_analysis_cache, cache_stats, memory_cache,
                      memory_cache_ttl>>
       /\ \/ /\ fault = "insert"
             /\ property_data_cache' = skipped.table
             /\ Returns(Call("bulk_cache_properties", <<properties, source_url>>,
                             <<skipped.success_count, total_count>>,
                             <<fault, "committed">>))
          \/ /\ fault = "commit"
             /\ UNCHANGED property_data_cache
             /\ Returns(Call("bulk_cache_properties", <<properties, source_url>>,
                             <<done.success_count, total_count>>,
                             <<fault, "rolled back">>))

clean_expired_cache_failing(fault) ==
    /\ fault = "db"
    /\ UNCHANGED <<now, gpt_analysis_cache, property_data_cache, cache_stats,
                   memory_cache, memory_cache_ttl>>
    /\ Returns(Call("clean_expired_cache", <<>>, Caught(0).ret,
                    <<fault, Caught(0).exit>>))

\* the except clause of get_stats returns {"error": str(e), "period_days": days}
get_stats_failing(days, fault) ==
    LET out == Caught([error |-> "e", period_days |-> days])
    IN /\ fault = "db"
       /\ UNCHANGED <<now, gpt_analysis_cache, property_data_cache,
                      cache_stats, memory_cache, memory_cache_ttl>>
       /\ Returns(Call("get_stats", <<days>>, out.ret, <<fault, out.exit>>))

----------------------------------------------------------------------------
(* Threads calling one facade at the same time.  Nothing in the class      *)
(* locks, so a call is a sequence of steps: one step per statement on      *)
(* memory_cache or memory_cache_ttl and one per transaction of the         *)
(* database.  threads[t] holds the call thread t is in (op, args), the     *)
(* statement it is at (pc) and the locals it has bound (loc).              *)

Threads == {"t1", "t2"}

\* not in a call
Idle == [pc |-> "idle", op |-> "", args |-> <<>>, loc |-> <<>>]

\* thread t moves to statement pc with locals loc
Goto(t, pc, loc) == threads' = [threads EXCEPT ![t].pc = pc, ![t].loc = loc]

\* the call of thread t returns ret (or raises: ret is the exception)
ThreadReturns(t, ret, path) ==
    /\ threads' = [threads EXCEPT ![t] = Idle]
    /\ Returns(Call(threads[t].op, threads[t].args, ret, path))

\* content_hash of the call thread t is in
HashOf(t) == compute_hash(threads[t].args[1] \o threads[t].args[2])

\* the calls in progress that will record a statistics event
Recording == {t \in Threads : threads[t].op \in {"get_gpt_analysis", "cache_gpt_analysis", "_update_stats"}}

\* thread t enters get_gpt_analysis(content, model)
thread_get_begin(t, content, model) ==
    /\ threads[t].pc = "idle"
    /\ TotalEvents(cache_stats) + Cardinality(Recording) < MaxEvents
    /\ threads' = [threads EXCEPT ![t] = [pc |-> "probe",
                                          op |-> "get_gpt_analysis",
                                          args |-> <<content, model>>,
                                          loc |-> <<>>]]
    /\ UNCHANGED <<now, gpt_analysis_cache, property_data_cache, cache_stats,
                   memory_cache, memory_cache_ttl, last>>

\* if content_hash in self.memory_cache:
thread_get_probe(t) ==
    /\ threads[t].pc = "probe"
    /\ Goto(t, IF HashOf(t) \in DOMAIN memory_cache THEN "check_ttl" ELSE "select",
            <<"none">>)
    /\ UNCHANGED <<now, gpt_analysis_cache, property_data_cache, cache_stats,
                   memory_cache, memory_cache_ttl, last>>

\* if datetime.now() < self.memory_cache_ttl.get(content_hash, datetime.now()):
thread_get_check_ttl(t) ==
    LET h == HashOf(t)
        expires_at == IF h \in DOMAIN memory_cache_ttl
                      THEN memory_cache_ttl[h] ELSE now
    IN /\ threads[t].pc = "check_ttl"
       /\ Goto(t, IF IsLive(now, expires_at) THEN "memory_hit" ELSE "del_value",
               <<"stale">>)
       /\ UNCHANGED <<now, gpt_analysis_cache, property_data_cache,
                      cache_stats, memory_cache, memory_cache_ttl, last>>

\* self._update_stats(cache_hit=True)
thread_get_memory_hit(t) ==
    /\ threads[t].pc = "memory_hit"
    /\ cache_stats' = update_stats(cache_stats, now, FALSE, TRUE, 0)
    /\ Goto(t, "memory_return", threads[t].loc)
    /\ UNCHANGED <<now, gpt_analysis_cache, property_data_cache, memory_cache,
                   memory_cache_ttl, last>>

\* return self.memory_cache[content_hash]: outside the try block, a missing
\* key raises KeyError to the caller
thread_get_memory_return(t) ==
    LET h == HashOf(t)
    IN /\ threads[t].pc = "memory_return"
       /\ IF h \in DOMAIN memory_cache
          THEN ThreadReturns(t, memory_cache[h], <<"hit", "skipped">>)
          ELSE ThreadReturns(t, <<"KeyError">>, <<"hit", "raised">>)
       /\ UNCHANGED <<now, gpt_analysis_cache, property_data_cache,
                      cache_stats, memory_cache, memory_cache_ttl>>

\* del self.memory_cache[content_hash]
thread_get_del_value(t) ==
    LET h == HashOf(t)
    IN /\ threads[t].pc = "del_value"
       /\ IF h \in DOMAIN memory_cache
          THEN /\ memory_cache' = DictDel(memory_cache, h)
               /\ Goto(t, "del_ttl", threads[t].loc)
               /\ UNCHANGED last
          ELSE /\ ThreadReturns(t, <<"KeyError">>, <<"stale", "raised">>)
               /\ UNCHANGED memory_cache
       /\ UNCHANGED <<now, gpt_analysis_cache, property_data_cache,
                      cache_stats, memory_cache_ttl>>

\* del self.memory_cache_ttl[content_hash]
thread_get_del_ttl(t) ==
    LET h == HashOf(t)
    IN /\ threads[t].pc = "del_ttl"
       /\ IF h \in DOMAIN memory_cache_ttl
          THEN /\ memory_cache_ttl' = DictDel(memory_cache_ttl, h)
               /\ Goto(t, "select", threads[t].loc)
               /\ UNCHANGED last
          ELSE /\ ThreadReturns(t, <<"KeyError">>, <<"stale", "raised">>)
               /\ UNCHANGED memory_cache_ttl
       /\ UNCHANGED <<now, gpt_analysis_cache, property_data_cache,
                      cache_stats, memory_cache>>

\* SELECT response_data, expires_at, token_count ... ; result = fetchone();
\* if datetime.now() < expires_at.  loc keeps the probe and the row read.
thread_get_select(t) ==
    LET h == HashOf(t)
        probe == threads[t].loc[1]
    IN /\ threads[t].pc = "select"
       /\ IF SelectAnalysis(gpt_analysis_cache, h, threads[t].args[2])
          THEN LET row == gpt_analysis_cache[h]
                   found == <<probe, row.response_data, row.expires_at,
                              row.token_count>>
               IN /\ Goto(t, IF IsLive(now, fromisoformat(row.expires_at))
                             THEN "promote_value" ELSE "delete", found)
                  /\ UNCHANGED last
          ELSE ThreadReturns(t, None, <<probe, "miss">>)
       /\ UNCHANGED <<now, gpt_analysis_cache, property_data_cache,
                      cache_stats, memory_cache, memory_cache_ttl>>

\* analysis_result = pickle.loads(response_data);
\* self.memory_cache[content_hash] = analysis_result
thread_get_promote_value(t) ==
    /\ threads[t].pc = "promote_value"
    /\ memory_cache' = DictSet(memory_cache, HashOf(t), loads(threads[t].loc[2]))
    /\ Goto(t, "promote_ttl", threads[t].loc)
    /\ UNCHANGED <<now, gpt_analysis_cache, property_data_cache, cache_stats,
                   memory_cache_ttl, last>>

\* self.memory_cache_ttl[content_hash] = expires_at
thread_get_promote_ttl(t) ==
    /\ threads[t].pc = "promote_ttl"
    /\ memory_cache_ttl' = DictSet(memory_cache_ttl, HashOf(t),
                                   fromisoformat(threads[t].loc[3]))
    /\ Goto(t, "hit_return", threads[t].loc)
    /\ UNCHANGED <<now, gpt_analysis_cache, property_data_cache, cache_stats,
                   memory_cache, last>>

\* self._update_stats(cache_hit=True, tokens_saved=token_count);
\* return analysis_result
thread_get_hit_return(t) ==
    /\ threads[t].pc = "hit_return"
    /\ cache_stats' = update_stats(cache_stats, now, FALSE, TRUE, threads[t].loc[4])
    /\ ThreadReturns(t, loads(threads[t].loc[2]), <<threads[t].loc[1], "hit">>)
    /\ UNCHANGED <<now, gpt_analysis_cache, property_data_cache, memory_cache,
                   memory_cache_ttl>>

\* DELETE FROM gpt_analysis_cache WHERE content_hash = ?; conn.commit();
\* return None.  The DELETE names the key only: it removes whatever row the
\* key has by now.
thread_get_delete(t) ==
    /\ threads[t].pc = "delete"
    /\ gpt_analysis_cache' = DictDel(gpt_analysis_cache, HashOf(t))
    /\ ThreadReturns(t, None, <<threads[t].loc[1], "expired">>)
    /\ UNCHANGED <<now, property_data_cache, cache_stats, memory_cache,
                   memory_cache_ttl>>

\* thread t enters cache_gpt_analysis: ttl, now and expires_at are bound
\* before the try block
thread_put_begin(t, content, model, analysis_result, token_count, ttl_days) ==
    /\ threads[t].pc = "idle"
    /\ TotalEvents(cache_stats) + Cardinality(Recording) < MaxEvents
    /\ threads' = [threads EXCEPT ![t] =
                     [pc |-> "insert", op |-> "cache_gpt_analysis",
                      args |-> <<content, model, analysis_result, token_count,
                                 ttl_days>>,
                      loc |-> <<now, PlusDays(now, PyOr(ttl_days, TtlDays))>>]]
    /\ UNCHANGED <<now, gpt_analysis_cache, property_data_cache, cache_stats,
                   memory_cache, memory_cache_ttl, last>>

\* response_data = pickle.dumps(analysis_result); INSERT OR REPLACE ...;
\* conn.commit()
thread_put_insert(t) ==
    LET a == threads[t].args
    IN /\ threads[t].pc = "insert"
       /\ IF CanPickle(a[3])
          THEN /\ gpt_analysis_cache' =
                     DictSet(gpt_analysis_cache, HashOf(t),
                             AnalysisRow(a[1], a[2], a[3], a[4],
                                         threads[t].loc[1], threads[t].loc[2]))
               /\ Goto(t, "put_value", threads[t].loc)
               /\ UNCHANGED last
          ELSE /\ ThreadReturns(t, FALSE, <<"failed">>)
               /\ UNCHANGED gpt_analysis_cache
       /\ UNCHANGED <<now, property_data_cache, cache_stats, memory_cache,
                      memory_cache_ttl>>

\* self.memory_cache[content_hash] = analysis_result
thread_put_value(t) ==
    /\ threads[t].pc = "put_value"
    /\ memory_cache' = DictSet(memory_cache, HashOf(t), threads[t].args[3])
    /\ Goto(t, "put_ttl", threads[t].loc)
    /\ UNCHANGED <<now, gpt_analysis_cache, property_data_cache, cache_stats,
                   memory_cache_ttl, last>>

\* self.memory_cache_ttl[content_hash] = expires_at
thread_put_ttl(t) ==
    /\ threads[t].pc = "put_ttl"
    /\ memory_cache_ttl' = DictSet(memory_cache_ttl, HashOf(t), threads[t].loc[2])
    /\ Goto(t, "put_return", threads[t].loc)
    /\ UNCHANGED <<now, gpt_analysis_cache, property_data_cache, cache_stats,
                   memory_cache, last>>

\* self._update_stats(api_call=True); return True
thread_put_return(t) ==
    /\ threads[t].pc = "put_return"
    /\ cache_stats' = update_stats(cache_stats, now, TRUE, FALSE, 0)
    /\ ThreadReturns(t, TRUE, <<"stored">>)
    /\ UNCHANGED <<now, gpt_analysis_cache, property_data_cache, memory_cache,
                   memory_cache_ttl>>

\* thread t enters clear_memory_cache: cache_size = len(self.memory_cache)
thread_clear_begin(t) ==
    /\ threads[t].pc = "idle"
    /\ threads' = [threads EXCEPT ![t] =
                     [pc |-> "clear_values", op |-> "clear_memory_cache",
                      args |-> <<>>,
                      loc |-> <<Cardinality(DOMAIN memory_cache)>>]]
    /\ UNCHANGED <<now, gpt_analysis_cache, property_data_cache, cache_stats,
                   memory_cache, memory_cache_ttl, last>>

\* self.memory_cache.clear()
thread_clear_values(t) ==
    /\ threads[t].pc = "clear_values"
    /\ memory_cache' = EmptyDict
    /\ Goto(t, "clear_ttl", threads[t].loc)
    /\ UNCHANGED <<now, gpt_analysis_cache, property_data_cache, cache_stats,
                   memory_cache_ttl, last>>

\* self.memory_cache_ttl.clear(); logger.info(...)
thread_clear_ttl(t) ==
    /\ threads[t].pc = "clear_ttl"
    /\ memory_cache_ttl' = EmptyDict
    /\ ThreadReturns(t, None, [i \in 1..threads[t].loc[1] |-> "released"])
    /\ UNCHANGED <<now, gpt_analysis_cache, property_data_cache, cache_stats,
                   memory_cache>>

----------------
(* _update_stats called by two callers at the same time: the SELECT of     *)
(* today's row and the INSERT or UPDATE that follows are two statements    *)

\* thread t enters _update_stats: today is bound before the try block
thread_stats_begin(t, api_call, cache_hit, tokens_saved) ==
    /\ threads[t].pc = "idle"
    /\ TotalEvents(cache_stats) + Cardinality(Recording) < MaxEvents
    /\ threads' = [threads EXCEPT ![t] =
                     [pc |-> "stats_select", op |-> "_update_stats",
                      args |-> <<api_call, cache_hit, tokens_saved>>,
                      loc |-> <<strftime(now)>>]]
    /\ UNCHANGED <<now, gpt_analysis_cache, property_data_cache, cache_stats,
                   memory_cache, memory_cache_ttl, last>>

\* SELECT * FROM cache_stats WHERE date = ?; result = cursor.fetchone()
thread_stats_select(t) ==
    LET today == threads[t].loc[1]
    IN /\ threads[t].pc = "stats_select"
       /\ Goto(t, IF today \in DOMAIN cache_stats THEN "stats_update"
                  ELSE "stats_insert", threads[t].loc)
       /\ UNCHANGED <<now, gpt_analysis_cache, property_data_cache,
                      cache_stats, memory_cache, memory_cache_ttl, last>>

\* UPDATE cache_stats SET ... = ... + 1 WHERE date = ?; conn.commit()
thread_stats_update(t) ==
    LET today == threads[t].loc[1]
        a == threads[t].args
    IN /\ threads[t].pc = "stats_update"
       /\ cache_stats' = DictSet(cache_stats, today,
                                 BumpStatRow(cache_stats[today], a[1], a[2],
                                             a[3], a[3] * CostPerToken))
       /\ ThreadReturns(t, None, <<"updated">>)
       /\ UNCHANGED <<now, gpt_analysis_cache, property_data_cache,
                      memory_cache, memory_cache_ttl>>

\* INSERT INTO cache_stats (date, ...) VALUES (...); conn.commit().  date is
\* the PRIMARY KEY: when the date has a row by now the INSERT raises
\* sqlite3.IntegrityError, which the except clause logs.
thread_stats_insert(t) ==
    LET today == threads[t].loc[1]
        a == threads[t].args
    IN /\ threads[t].pc = "stats_insert"
       /\ IF today \in DOMAIN cache_stats
          THEN /\ UNCHANGED cache_stats
               /\ ThreadReturns(t, None, <<"IntegrityError">>)
          ELSE /\ cache_stats' = DictSet(cache_stats, today,
                                         NewStatRow(a[1], a[2], a[3],
                                                    a[3] * CostPerToken))
               /\ ThreadReturns(t, None, <<"inserted">>)
       /\ UNCHANGED <<now, gpt_analysis_cache, property_data_cache,
                      memory_cache, memory_cache_ttl>>

----------------------------------------------------------------------------
(* __init__ of a new facade on the database of a previous one *)

\* (variant: the table is dropped and created again)
init_db_fresh(table) == EmptyDict

\* CREATE TABLE IF NOT EXISTS ...: a table that exists keeps its rows
init_db(table) == table

\* PropertyCache(cache_dir, db_path, ttl_days) after a restart of the
\* process: _init_db, then empty memory_cache and memory_cache_ttl
PropertyCache_init ==
    /\ gpt_analysis_cache' = init_db(gpt_analysis_cache)
    /\ property_data_cache' = init_db(property_data_cache)
    /\ cache_stats' = init_db(cache_stats)
    /\ memory_cache' = EmptyDict
    /\ memory_cache_ttl' = EmptyDict
    /\ UNCHANGED now
    /\ Returns(Call("__init__", <<>>, None, <<>>))

----------------------------------------------------------------------------
(* The clock *)

Tick ==
    /\ now < MaxTime
    /\ now' = now + 1
    /\ UNCHANGED <<gpt_analysis_cache, property_data_cache, cache_stats,
                   memory_cache, memory_cache_ttl>>
    /\ Returns(Call("tick", <<>>, None, <<>>))

----------------------------------------------------------------------------
(* __init__ on a fresh cache directory: empty tables, empty memory cache *)

Init ==
    /\ now = 0
    /\ gpt_analysis_cache = EmptyDict
    /\ property_data_cache = EmptyDict
    /\ cache_stats = EmptyDict
    /\ memory_cache = EmptyDict
    /\ memory_cache_ttl = EmptyDict
    /\ last = Call("init", <<>>, None, <<>>)
    /\ ref_gpt = EmptyDict
    /\ ref_ret = None
    /\ bulk = NoBulk
    /\ threads = [t \in Threads |-> Idle]

(* One facade, analysis operations only *)

GetAnalysis ==
    /\ \E k \in AnalysisKeys : get_gpt_analysis(k[1], k[2])
    /\ UNCHANGED auxVars

PutAnalysis ==
    /\ \E k \in AnalysisKeys, a \in Analyses :
          cache_gpt_analysis(k[1], k[2], a[1], a[2], a[3])
    /\ UNCHANGED auxVars

PutMoreAnalysis ==
    /\ \E a \in MoreAnalyses :
          cache_gpt_analysis(<<"a">>, <<"c">>, a[1], a[2], a[3])
    /\ UNCHANGED auxVars

CleanExpired == clean_expired_cache /\ UNCHANGED auxVars

ClearMemory == clear_memory_cache /\ UNCHANGED auxVars

Advance == Tick /\ UNCHANGED auxVars

NextAnalysis ==
    \/ GetAnalysis
    \/ PutAnalysis
    \/ PutMoreAnalysis
    \/ CleanExpired
    \/ ClearMemory
    \/ Advance

SpecAnalysis == Init /\ [][NextAnalysis]_vars

----------------------------------------------------------------------------
(* One facade, entity operations only *)

GetProperty ==
    /\ \E id \in PropertyIds : get_property_data(id)
    /\ UNCHANGED auxVars

PutProperty ==
    /\ \E id \in PropertyIds, p \in Properties :
          cache_property_data(id, p[1], p[2], p[3])
    /\ UNCHANGED auxVars

PutMoreProperty ==
    /\ \E p \in MoreProperties : cache_property_data("p1", p[1], p[2], p[3])
    /\ UNCHANGED auxVars

BulkProperties ==
    /\ \E b \in Batches : bulk_cache_properties(b[1], b[2])
    /\ UNCHANGED auxVars

NextEntity ==
    \/ GetProperty
    \/ PutProperty
    \/ PutMoreProperty
    \/ BulkProperties
    \/ CleanExpired
    \/ Advance

SpecEntity == Init /\ [][NextEntity]_vars

----------------------------------------------------------------------------
(* One facade, all public operations, on a reduced input domain: one       *)
(* analysis key, one property id                                           *)

\* reads of the key that is stored and of a key that never is
GetOneAnalysis ==
    /\ \E k \in {<<<<"a">>, <<"c">>>>, <<<<"a", "b">>, <<"b", "c">>>>} :
          get_gpt_analysis(k[1], k[2])
    /\ UNCHANGED auxVars

PutOneAnalysis ==
    /\ \E a \in MoreAnalyses \cup {<<Obj("r2"), 3, <<2>> >>} :
          cache_gpt_analysis(<<"a">>, <<"c">>, a[1], a[2], a[3])
    /\ UNCHANGED auxVars

\* reads of the property that is stored and of one that never is
GetOneProperty ==
    /\ \E id \in PropertyIds : get_property_data(id)
    /\ UNCHANGED auxVars

GetStats ==
    /\ \E days \in StatsDays : get_stats(days)
    /\ UNCHANGED auxVars

BulkOneProperty ==
    /\ \E b \in {x \in Batches : DOMAIN x[1] \subseteq {"p1"}} :
          bulk_cache_properties(b[1], b[2])
    /\ UNCHANGED auxVars

Next ==
    \/ GetOneAnalysis
    \/ PutOneAnalysis
    \/ GetOneProperty
    \/ PutMoreProperty
    \/ BulkOneProperty
    \/ GetStats
    \/ CleanExpired
    \/ ClearMemory
    \/ Advance

Spec == Init /\ [][Next]_vars

----------------------------------------------------------------------------
(* One facade, the operations that read or write cache_stats, and          *)
(* _update_stats called directly                                           *)

RecordEvent ==
    /\ \E e \in Events : update_stats_call(e[1], e[2], e[3])
    /\ UNCHANGED auxVars

NextStats ==
    \/ RecordEvent
    \/ GetOneAnalysis
    \/ PutOneAnalysis
    \/ GetStats
    \/ CleanExpired
    \/ ClearMemory
    \/ Advance

SpecStats == Init /\ [][NextStats]_vars

----------------------------------------------------------------------------
(* Two callers on one database: one stores single entities and batches,    *)
(* the batches statement by statement, the other reads the table.  A      *)
(* single put waits for the write lock of an open transaction.            *)

PutPropertyAlone ==
    /\ bulk.pc = "idle"
    /\ \E id \in PropertyIds, p \in Properties :
          cache_property_data(id, p[1], p[2], p[3])
    /\ UNCHANGED auxVars

BulkBegin ==
    /\ \E b \in Batches : bulk_begin(b[1], b[2])
    /\ UNCHANGED <<refVars, threads>>

BulkItemStep == bulk_item /\ UNCHANGED <<refVars, threads>>

BulkCommit == bulk_commit /\ UNCHANGED <<refVars, threads>>

SelectProperties == select_properties /\ UNCHANGED <<refVars, threads>>

NextBulk ==
    \/ PutPropertyAlone
    \/ BulkBegin
    \/ BulkItemStep
    \/ BulkCommit
    \/ SelectProperties
    \/ Advance

SpecBulk == Init /\ [][NextBulk]_vars

----------------------------------------------------------------------------
(* One facade on the reduced input domain, whose calls may be struck by a  *)
(* failure of the storage layer or of the serializer                       *)

\* the put whose failing twin is PutAnalysisFailing
PutSameAnalysis ==
    /\ cache_gpt_analysis(<<"a">>, <<"c">>, Obj("r1"), 2, <<>>)
    /\ UNCHANGED auxVars

GetAnalysisFailing ==
    /\ \E f \in Faults : get_gpt_analysis_failing(<<"a">>, <<"c">>, f)
    /\ UNCHANGED auxVars

PutAnalysisFailing ==
    /\ \E f \in Faults :
          cache_gpt_analysis_failing(<<"a">>, <<"c">>, Obj("r1"), 2, <<>>, f)
    /\ UNCHANGED auxVars

GetPropertyFailing ==
    /\ \E f \in Faults : get_property_data_failing("p1", f)
    /\ UNCHANGED auxVars

PutPropertyFailing ==
    /\ \E f \in Faults :
          cache_property_data_failing("p1", Obj("d1"), "u1", <<>>, f)
    /\ UNCHANGED auxVars

BulkFailing ==
    /\ \E f \in Faults :
          bulk_cache_properties_failing([id \in {"p1"} |-> Obj("d2")], "u1", f)
    /\ UNCHANGED auxVars

CleanExpiredFailing ==
    /\ \E f \in Faults : clean_expired_cache_failing(f)
    /\ UNCHANGED auxVars

GetStatsFailing ==
    /\ \E f \in Faults : get_stats_failing(1, f)
    /\ UNCHANGED auxVars

NextFault ==
    \/ GetOneAnalysis
    \/ PutSameAnalysis
    \/ GetOneProperty
    \/ PutMoreProperty
    \/ ClearMemory
    \/ Advance
    \/ GetAnalysisFailing
    \/ PutAnalysisFailing
    \/ GetPropertyFailing
    \/ PutPropertyFailing
    \/ BulkFailing
    \/ CleanExpiredFailing
    \/ GetStatsFailing

SpecFault == Init /\ [][NextFault]_vars

----------------------------------------------------------------------------
(* One facade whose entity operations may be struck by a failure, next to *)
(* a put that fills the analysis table, the memory cache and cache_stats   *)

BulkAborting ==
    /\ \E b \in {x \in Batches : x[2] = "u1"}, f \in BulkFaults :
          bulk_cache_properties_aborting(b[1], b[2], f)
    /\ UNCHANGED auxVars

NextEntityFault ==
    \/ GetOneProperty
    \/ PutMoreProperty
    \/ BulkOneProperty
    \/ GetPropertyFailing
    \/ PutPropertyFailing
    \/ BulkFailing
    \/ BulkAborting
    \/ PutSameAnalysis
    \/ Advance

SpecEntityFault == Init /\ [][NextEntityFault]_vars

----------------------------------------------------------------------------
(* A facade on the reduced input domain that is constructed again on the  *)
(* same database at any moment                                             *)

Restart == PropertyCache_init /\ UNCHANGED auxVars

NextRestart ==
    \/ GetOneAnalysis
    \/ PutOneAnalysis
    \/ GetOneProperty
    \/ PutMoreProperty
    \/ Restart
    \/ Advance

SpecRestart == Init /\ [][NextRestart]_vars

----------------------------------------------------------------------------
(* One facade whose entries are put, read, promoted, cleared from memory  *)
(* and swept while the clock advances                                     *)

NextLifetime ==
    \/ GetOneAnalysis
    \/ PutSameAnalysis
    \/ GetOneProperty
    \/ PutMoreProperty
    \/ BulkOneProperty
    \/ CleanExpired
    \/ ClearMemory
    \/ Advance

SpecLifetime == Init /\ [][NextLifetime]_vars

----------------------------------------------------------------------------
(* Two threads on one facade, each calling get_gpt_analysis,               *)
(* cache_gpt_analysis and clear_memory_cache for one (content, model)      *)

ThreadBegin ==
    /\ \E t \in Threads :
          \/ thread_get_begin(t, <<"a">>, <<"c">>)
          \/ thread_put_begin(t, <<"a">>, <<"c">>, Obj("r1"), 2, <<>>)
          \/ thread_clear_begin(t)
    /\ UNCHANGED <<ref_gpt, ref_ret, bulk>>

ThreadGetMemory ==
    /\ \E t \in Threads :
          \/ thread_get_probe(t)
          \/ thread_get_check_ttl(t)
          \/ thread_get_memory_hit(t)
          \/ thread_get_memory_return(t)
          \/ thread_get_del_value(t)
          \/ thread_get_del_ttl(t)
    /\ UNCHANGED <<ref_gpt, ref_ret, bulk>>

ThreadGetTable ==
    /\ \E t \in Threads :
          \/ thread_get_select(t)
          \/ thread_get_promote_value(t)
          \/ thread_get_promote_ttl(t)
          \/ thread_get_hit_return(t)
          \/ thread_get_delete(t)
    /\ UNCHANGED <<ref_gpt, ref_ret, bulk>>

ThreadPut ==
    /\ \E t \in Threads :
          \/ thread_put_insert(t)
          \/ thread_put_value(t)
          \/ thread_put_ttl(t)
          \/ thread_put_return(t)
    /\ UNCHANGED <<ref_gpt, ref_ret, bulk>>

ThreadClear ==
    /\ \E t \in Threads :
          \/ thread_clear_values(t)
          \/ thread_clear_ttl(t)
    /\ UNCHANGED <<ref_gpt, ref_ret, bulk>>

NextThreads ==
    \/ ThreadBegin
    \/ ThreadGetMemory
    \/ ThreadGetTable
    \/ ThreadPut
    \/ ThreadClear
    \/ Advance

SpecThreads == Init /\ [][NextThreads]_vars

----------------------------------------------------------------------------
(* Two callers recording statistics events at the same time *)

ThreadStatsBegin ==
    /\ \E t \in Threads, e \in Events : thread_stats_begin(t, e[1], e[2], e[3])
    /\ UNCHANGED <<ref_gpt, ref_ret, bulk>>

ThreadStatsSelect ==
    /\ \E t \in Threads : thread_stats_select(t)
    /\ UNCHANGED <<ref_gpt, ref_ret, bulk>>

ThreadStatsUpdate ==
    /\ \E t \in Threads : thread_stats_update(t)
    /\ UNCHANGED <<ref_gpt, ref_ret, bulk>>

ThreadStatsInsert ==
    /\ \E t \in Threads : thread_stats_insert(t)
    /\ UNCHANGED <<ref_gpt, ref_ret, bulk>>

NextStatsThreads ==
    \/ ThreadStatsBegin
    \/ ThreadStatsSelect
    \/ ThreadStatsUpdate
    \/ ThreadStatsInsert
    \/ Advance

SpecStatsThreads == Init /\ [][NextStatsThreads]_vars

----------------------------------------------------------------------------
(* GPTOptimizer.analyze_property_info in front of the cache *)

\* the models the remote API serves
RemoteModels == {"gpt-4o", "gpt-4o-mini", "gpt-3.5-turbo"}
\* the text of a model name as the cache concatenates and hashes it,
\* abbreviated to the alphabet of Md5
ModelText(model) ==
    CASE model = "gpt-4o" -> <<"c">>
      [] model = "gpt-4o-mini" -> <<"b", "c">>
      [] model = "gpt-3.5-turbo" -> <<"b">>

\* the page offered: in a page "a" is the listing and "b" a block of
\* boilerplate (a footer, a header, ...) that makes the page an HTML text of
\* more than 5000 characters
WebContents == {<<"a", "b">>}
SystemPrompts == {<<"c">>}
\* the (model, complexity) arguments offered: complexity is read for model
\* "auto" only and defaults to "medium"
ModelChoices ==
    {<<"gpt-4o", "medium">>, <<"gpt-4o-mini", "medium">>,
     <<"gpt-3.5-turbo", "medium">>, <<"auto", "low">>, <<"auto", "medium">>,
     <<"auto", "high">>}
\* the parsed results the remote API can answer with
RemoteResults == {Obj("r1")}
\* the remote call, or the parsing of its answer, raises
Fail == <<"fail">>
\* what the remote API does for each model during one request: Fail or the
\* result it answers with
Remotes == [RemoteModels -> {Fail} \cup RemoteResults]
\* an empty dict, a result a caller of the cache can store
EmptyResult == Obj("{}")

\* bool(value) of Python
Truthy(value) == value # None /\ value # EmptyResult

\* one token per symbol of the text
count_tokens(text) == Len(text)

\* json.dumps(result_dict): a text of one symbol
json_dumps(result_dict) == <<result_dict[2]>>

LowTokens == 2000
MediumTokens == 3000

select_optimal_model(content, complexity) ==
    LET token_count == count_tokens(content)
    IN IF complexity = "low" /\ token_count < LowTokens THEN "gpt-3.5-turbo"
       ELSE IF complexity = "medium" /\ token_count < MediumTokens
            THEN "gpt-4o-mini"
            ELSE "gpt-4o"

\* re.sub(pattern, '', ...) for every pattern of boilerplate_sections
remove_html_boilerplate(html_content) ==
    SelectSeq(html_content, LAMBDA ch : ch # "b")

\* the system prompts offered have at most 500 characters and are kept
optimize_prompt(content, system_prompt) ==
    IF \E i \in 1..Len(content) : content[i] = "b"
    THEN <<remove_html_boilerplate(content), system_prompt>>
    ELSE <<content, system_prompt>>

\* the cache as a request finds it, and what the request did so far: the
\* models called remotely, the lookups and the stores made in the cache
OptimizerState(table, cache, cache_ttl, stats) ==
    [table |-> table, cache |-> cache, cache_ttl |-> cache_ttl,
     stats |-> stats, calls |-> <<>>, reads |-> <<>>, writes |-> <<>>]

\* the one element of a set of one element
Only(S) == CHOOSE x \in S : TRUE

\* cached_result = self.cache.get_gpt_analysis(opt_content, model), when the
\* cache is enabled and the request does not force a refresh
read_cache(st, t, reading, opt_content, model) ==
    IF reading
    THEN Only({[st EXCEPT !.table = g.table, !.cache = g.cache,
                          !.cache_ttl = g.cache_ttl, !.stats = g.stats,
                          !.reads = Append(@, <<model, g.path, g.ret>>)] :
               g \in {AnalysisLookup(st.table, st.cache, st.cache_ttl,
                                     st.stats, t, opt_content,
                                     ModelText(model))}})
    ELSE st

\* self.gpt_client.beta.chat.completions.parse(model=model, ...)
remote_call(st, model) == [st EXCEPT !.calls = Append(@, model)]

\* self.cache.cache_gpt_analysis(opt_content, model, result_dict,
\* token_count), when the cache is enabled
write_cache(st, t, cache_enabled, opt_content, model, result_dict, token_count) ==
    IF cache_enabled
    THEN Only({[st EXCEPT !.table = w.table, !.cache = w.cache,
                          !.cache_ttl = w.cache_ttl, !.stats = w.stats,
                          !.writes = Append(@, <<model, result_dict, w.ret>>)] :
               w \in {AnalysisStore(st.table, st.cache, st.cache_ttl,
                                    st.stats, t, opt_content, ModelText(model),
                                    result_dict, token_count, <<>>)}})
    ELSE st

\* What analyze_property_info does at time t for an optimizer with the given
\* cache_enabled and a remote API that behaves as gpt_client: how it exits,
\* what it returns and the state it leaves.
RECURSIVE analyze(_, _, _, _, _, _, _, _, _)
analyze(st, t, cache_enabled, gpt_client, web_content, system_prompt, model_arg, force_refresh, complexity) ==
    LET model == IF model_arg = "auto"
                 THEN select_optimal_model(web_content, complexity)
                 ELSE model_arg
        opt == optimize_prompt(web_content, system_prompt)
        opt_content == opt[1]
        opt_system_prompt == opt[2]
        input_tokens == count_tokens(opt_content \o opt_system_prompt)
        reading == cache_enabled /\ ~force_refresh
        result_dict == gpt_client[model]
        output_tokens == count_tokens(json_dumps(result_dict))
    IN Only({
         LET cached_result == s1.reads[Len(s1.reads)][3]
         IN IF reading /\ cached_result = <<"KeyError">>
            THEN [exit |-> "raised", ret |-> cached_result, st |-> s1]
            ELSE IF reading /\ Truthy(cached_result)
            THEN [exit |-> "returned", ret |-> cached_result, st |-> s1]
            ELSE IF result_dict # Fail
            THEN [exit |-> "returned", ret |-> result_dict,
                  st |-> write_cache(remote_call(s1, model), t, cache_enabled,
                                     opt_content, model, result_dict,
                                     input_tokens + output_tokens)]
            ELSE IF model = "gpt-4o" /\ ~force_refresh
            THEN analyze(remote_call(s1, model), t, cache_enabled, gpt_client,
                         web_content, system_prompt, "gpt-4o-mini", TRUE,
                         "medium")
            ELSE IF model = "gpt-4o-mini" /\ ~force_refresh
            THEN analyze(remote_call(s1, model), t, cache_enabled, gpt_client,
                         web_content, system_prompt, "gpt-3.5-turbo", TRUE,
                         "medium")
            ELSE [exit |-> "raised", ret |-> <<"Exception">>,
                  st |-> remote_call(s1, model)] :
         s1 \in {read_cache(st, t, reading, opt_content, model)}})

\* a request records at most one hit and one API call in the statistics
analyze_property_info(cache_enabled, gpt_client, web_content, system_prompt, model, force_refresh, complexity) ==
    LET args == [cache_enabled |-> cache_enabled, gpt_client |-> gpt_client,
                 web_content |-> web_content, system_prompt |-> system_prompt,
                 model |-> model, force_refresh |-> force_refresh,
                 complexity |-> complexity]
    IN /\ TotalEvents(cache_stats) + 2 <= MaxEvents
       /\ \E o \in {analyze(OptimizerState(gpt_analysis_cache, memory_cache,
                                           memory_cache_ttl, cache_stats),
                            now, cache_enabled, gpt_client, web_content,
                            system_prompt, model, force_refresh, complexity)} :
             /\ gpt_analysis_cache' = o.st.table
             /\ memory_cache' = o.st.cache
             /\ memory_cache_ttl' = o.st.cache_ttl
             /\ cache_stats' = o.st.stats
             /\ Returns(Call("analyze_property_info", args, o.ret,
                             [exit |-> o.exit, calls |-> o.st.calls,
                              reads |-> o.st.reads, writes |-> o.st.writes]))
       /\ UNCHANGED <<now, property_data_cache>>

AnalyzePropertyInfo ==
    /\ \E cache_enabled \in BOOLEAN, gpt_client \in Remotes,
          web_content \in WebContents, system_prompt \in SystemPrompts,
          choice \in ModelChoices, force_refresh \in BOOLEAN :
          analyze_property_info(cache_enabled, gpt_client, web_content,
                                system_prompt, choice[1], force_refresh,
                                choice[2])
    /\ UNCHANGED auxVars

\* another caller of the cache stores an empty result for gpt-4o
PutEmptyAnalysis ==
    /\ cache_gpt_analysis(<<"a">>, ModelText("gpt-4o"), EmptyResult, 1, <<>>)
    /\ UNCHANGED auxVars

NextOptimizer ==
    \/ AnalyzePropertyInfo
    \/ PutEmptyAnalysis
    \/ ClearMemory
    \/ Advance

SpecOptimizer == Init /\ [][NextOptimizer]_vars

----------------------------------------------------------------------------
(* _compute_hash applied to the strings of HashInputs, at any time *)

ComputeHash ==
    /\ \E content \in HashInputs : compute_hash_call(content)
    /\ UNCHANGED auxVars

NextHash ==
    \/ ComputeHash
    \/ Advance

SpecHash == Init /\ [][NextHash]_vars

----------------------------------------------------------------------------
(* One facade, puts into both tables and the sweep *)

\* puts under two keys whose digests differ
PutTwoAnalyses ==
    /\ \E k \in {<<<<"a">>, <<"c">>>>, <<<<"a">>, <<"b", "c">>>>}, a \in Analyses :
          cache_gpt_analysis(k[1], k[2], a[1], a[2], a[3])
    /\ UNCHANGED auxVars

NextSweep ==
    \/ PutTwoAnalyses
    \/ PutProperty
    \/ CleanExpired
    \/ Advance

SpecSweep == Init /\ [][NextSweep]_vars

----------------
(* The same calls made on a second facade that has no memory cache: its    *)
(* memory cache is empty at every call, so every get goes to its table.   *)

ref_get_gpt_analysis(content, model) ==
    LET o == AnalysisLookup(ref_gpt, EmptyDict, EmptyDict, EmptyDict, now,
                            content, model)
    IN /\ ref_gpt' = o.table
       /\ ref_ret' = o.ret

ref_cache_gpt_analysis(content, model, analysis_result, token_count, ttl_days) ==
    LET o == AnalysisStore(ref_gpt, EmptyDict, EmptyDict, EmptyDict, now,
                           content, model, analysis_result, token_count,
                           ttl_days)
    IN /\ ref_gpt' = o.table
       /\ UNCHANGED ref_ret

ref_clean_expired_cache ==
    /\ ref_gpt' = [k \in (DOMAIN ref_gpt) \ ExpiredKeys(ref_gpt, isoformat(now))
                      |-> ref_gpt[k]]
    /\ UNCHANGED ref_ret

NextRef ==
    \/ \E k \in AnalysisKeys :
          /\ get_gpt_analysis(k[1], k[2])
          /\ ref_get_gpt_analysis(k[1], k[2])
          /\ UNCHANGED <<bulk, threads>>
    \/ \E k \in AnalysisKeys, a \in Analyses :
          /\ cache_gpt_analysis(k[1], k[2], a[1], a[2], a[3])
          /\ ref_cache_gpt_analysis(k[1], k[2], a[1], a[2], a[3])
          /\ UNCHANGED <<bulk, threads>>
    \/ clean_expired_cache /\ ref_clean_expired_cache /\ UNCHANGED <<bulk, threads>>
    \/ Tick /\ UNCHANGED auxVars

SpecRef == Init /\ [][NextRef]_vars

----------------------------------------------------------------------------
(* Properties *)

\* a column of the statistics row of the date of t; 0 when there is no row
StatOn(stats, t, col) ==
    IF strftime(t) \in DOMAIN stats THEN stats[strftime(t)][col] ELSE 0

\* the value returned by a get is a cached object (not None)
IsValue(ret) == ret[1] = "obj"

\* the call that just returned is get_gpt_analysis / get_property_data
JustGotAnalysis == last.op = "get_gpt_analysis"
JustGotProperty == last.op = "get_property_data"

\* the call that just returned is a cache_gpt_analysis that returned True
JustStoredAnalysis == last.op = "cache_gpt_analysis" /\ last.ret = TRUE

\* C1: in the state a successful cache_gpt_analysis(c, m, r, n) leaves (no
\* other call made, the clock not advanced), get_gpt_analysis(c, m) returns a
\* value equal to r.
C1_RoundTrip ==
    JustStoredAnalysis =>
        analysis_lookup(last.args[1], last.args[2]).ret = last.args[3]

\* a put has just overwritten nothing or something, and the read that follows
\* is answered with its payload
C1_Witness ==
    /\ JustStoredAnalysis
    /\ last.args[3] = Obj("r2")
    /\ IsValue(analysis_lookup(last.args[1], last.args[2]).ret)

\* C2: every get_gpt_analysis that returns a cached value, from the memory
\* cache or from the table, adds to today's tokens_saved the token_count
\* stored with the entry.
C2_TokensOnEveryHit ==
    [][(last'.op = "get_gpt_analysis" /\ IsValue(last'.ret)) =>
          LET h == compute_hash(last'.args[1] \o last'.args[2])
          IN /\ h \in DOMAIN gpt_analysis_cache
             /\ StatOn(cache_stats', now, "tokens_saved") =
                   StatOn(cache_stats, now, "tokens_saved")
                   + gpt_analysis_cache[h].token_count]_vars

\* C3: every get_gpt_analysis returns what the same call returns on the
\* facade without memory cache, after the same sequence of calls.
C3_MemoryTransparent == JustGotAnalysis => last.ret = ref_ret

\* C4: get_gpt_analysis(c, m) returns a value only if the row under its
\* fingerprint was written by a cache_gpt_analysis with exactly the content c
\* and the model m, and the value is the payload of that row (the latest put).
C4_KeyedByContentAndModel ==
    (JustGotAnalysis /\ IsValue(last.ret)) =>
        LET h == compute_hash(last.args[1] \o last.args[2])
        IN /\ h \in DOMAIN gpt_analysis_cache
           /\ gpt_analysis_cache[h].model = last.args[2]
           /\ gpt_analysis_cache[h].request_data =
                 Prefix(last.args[1], ExcerptLen)
           /\ loads(gpt_analysis_cache[h].response_data) = last.ret

\* the entry of (content, model) is stored, in the table or in the memory
\* cache, and the clock has reached its expires_at
EntryExpired(content, model) ==
    LET h == compute_hash(content \o model)
    IN \/ /\ SelectAnalysis(gpt_analysis_cache, h, model)
          /\ now >= fromisoformat(gpt_analysis_cache[h].expires_at)
       \/ /\ h \in DOMAIN memory_cache
          /\ h \in DOMAIN memory_cache_ttl
          /\ now >= memory_cache_ttl[h]

\* C5: a get_gpt_analysis(c, m) called when now >= expires_at of the stored
\* entry returns None, leaves the entry neither in the table nor in the
\* memory cache, and records no cache hit.
C5_AnalysisExpiry ==
    [][\A k \in AnalysisKeys :
          (/\ last'.op = "get_gpt_analysis"
           /\ last'.args = k
           /\ EntryExpired(k[1], k[2])) =>
             LET h == compute_hash(k[1] \o k[2])
             IN /\ last'.ret = None
                /\ ~SelectAnalysis(gpt_analysis_cache', h, k[2])
                /\ h \notin DOMAIN memory_cache'
                /\ h \notin DOMAIN memory_cache_ttl'
                /\ cache_stats' = cache_stats]_vars

\* a get has just found the entry expired in the memory cache and in the table
C5_Witness ==
    /\ JustGotAnalysis
    /\ last.path = <<"stale", "expired">>
    /\ last.ret = None

\* C6: a get_property_data(id) called when now >= expires_at of the stored
\* row returns None and deletes the row of id; the rows of the other property
\* ids are unchanged.
C6_PropertyExpiry ==
    [][\A id \in PropertyIds :
          (/\ last'.op = "get_property_data"
           /\ last'.args = <<id>>
           /\ id \in DOMAIN property_data_cache
           /\ now >= fromisoformat(property_data_cache[id].expires_at)) =>
             /\ last'.ret = None
             /\ id \notin DOMAIN property_data_cache'
             /\ DOMAIN property_data_cache' =
                   (DOMAIN property_data_cache) \ {id}
             /\ \A other \in DOMAIN property_data_cache' :
                   property_data_cache'[other] = property_data_cache[other]]_vars

\* a get has just found its row expired while another property is stored
C6_Witness ==
    /\ JustGotProperty
    /\ last.path = <<"expired">>
    /\ last.ret = None
    /\ DOMAIN property_data_cache # {}

\* the tables and the memory cache of the facade
stores == <<gpt_analysis_cache, property_data_cache, cache_stats,
            memory_cache, memory_cache_ttl>>

\* C7: get_gpt_analysis for a key that is in neither store and
\* get_property_data for an unknown id return None and leave the three tables
\* and the memory cache as they were.
C7_MissChangesNothing ==
    [][(\/ /\ last'.op = "get_gpt_analysis"
           /\ LET h == compute_hash(last'.args[1] \o last'.args[2])
              IN /\ h \notin DOMAIN gpt_analysis_cache
                 /\ h \notin DOMAIN memory_cache
                 /\ h \notin DOMAIN memory_cache_ttl
        \/ /\ last'.op = "get_property_data"
           /\ last'.args[1] \notin DOMAIN property_data_cache) =>
          /\ last'.ret = None
          /\ stores' = stores]_vars

\* a get has just missed on an unknown key while every table has rows
C7_Witness ==
    /\ JustGotAnalysis
    /\ last.path = <<"none", "miss">>
    /\ last.ret = None
    /\ gpt_analysis_cache # EmptyDict
    /\ property_data_cache # EmptyDict
    /\ cache_stats # EmptyDict

\* C8: a get_gpt_analysis that returns a cached value adds exactly 1 to
\* today's cache_hits, and one that returns None adds nothing.
C8_HitCounting ==
    [][last'.op = "get_gpt_analysis" =>
          StatOn(cache_stats', now, "cache_hits") =
             StatOn(cache_stats, now, "cache_hits")
             + (IF IsValue(last'.ret) THEN 1 ELSE 0)]_vars

\* a second consecutive hit has just been counted
C8_Witness ==
    /\ JustGotAnalysis
    /\ IsValue(last.ret)
    /\ StatOn(cache_stats, now, "cache_hits") >= 2

\* api_calls of a date; 0 when the date has no row
ApiCallsOn(stats, d) == IF d \in DOMAIN stats THEN stats[d].api_calls ELSE 0

\* C9: a cache_gpt_analysis that returns True adds exactly 1 to today's
\* api_calls and leaves cache_hits, tokens_saved and cost_saved unchanged; no
\* other call changes api_calls of any date.
C9_ApiCallCounting ==
    [][IF last'.op = "cache_gpt_analysis" /\ last'.ret = TRUE
       THEN /\ StatOn(cache_stats', now, "api_calls") =
                  StatOn(cache_stats, now, "api_calls") + 1
            /\ \A col \in {"cache_hits", "tokens_saved", "cost_saved"} :
                  StatOn(cache_stats', now, col) = StatOn(cache_stats, now, col)
       ELSE \A d \in (DOMAIN cache_stats) \cup (DOMAIN cache_stats') :
               ApiCallsOn(cache_stats', d) = ApiCallsOn(cache_stats, d)]_vars

\* a second put of the day has just been counted, after a hit that saved
\* tokens
C9_Witness ==
    /\ JustStoredAnalysis
    /\ StatOn(cache_stats, now, "api_calls") = 2
    /\ StatOn(cache_stats, now, "cache_hits") = 1
    /\ StatOn(cache_stats, now, "tokens_saved") > 0

\* the call that just returned is a bulk_cache_properties whose payloads all
\* serialize
JustStoredBatch ==
    /\ last.op = "bulk_cache_properties"
    /\ \A id \in DOMAIN last.args[1] : CanPickle(last.args[1][id])

\* C10: bulk_cache_properties over n entities whose payloads all serialize
\* returns (n, n); in the state it leaves, get_property_data(id) returns the
\* payload of every id of the batch and every row carries the source_url.
C10_BulkAllValid ==
    JustStoredBatch =>
        LET properties == last.args[1]
            n == Cardinality(DOMAIN properties)
        IN /\ last.ret = <<n, n>>
           /\ \A id \in DOMAIN properties :
                 /\ property_lookup(id).ret = properties[id]
                 /\ id \in DOMAIN property_data_cache
                 /\ property_data_cache[id].source_url = last.args[2]

\* a batch of two different payloads has just been stored
C10_Witness ==
    /\ JustStoredBatch
    /\ last.ret = <<2, 2>>
    /\ last.args[1]["p1"] # last.args[1]["p2"]

\* C11: bulk_cache_properties returns (s, n), n the size of the mapping and s
\* the number of items that serialize; every such item is retrievable in the
\* state the call leaves, whatever its position in the batch, and the row (or
\* absence) of every failing item's id is as it was before the call.
C11_PartialBatch ==
    [][last'.op = "bulk_cache_properties" =>
         LET properties == last'.args[1]
             ok == {id \in DOMAIN properties : CanPickle(properties[id])}
         IN /\ last'.ret = <<Cardinality(ok), Cardinality(DOMAIN properties)>>
            /\ \A id \in ok : property_lookup(id)'.ret = properties[id]
            /\ \A id \in (DOMAIN properties) \ ok :
                  /\ (id \in DOMAIN property_data_cache')
                        = (id \in DOMAIN property_data_cache)
                  /\ id \in DOMAIN property_data_cache =>
                        property_data_cache'[id] = property_data_cache[id]
      ]_vars

\* a batch whose first item failed has stored its second item and kept the
\* row the failing id already had
C11_Witness ==
    /\ last.op = "bulk_cache_properties"
    /\ last.ret = <<1, 2>>
    /\ ~CanPickle(last.args[1]["p1"])
    /\ "p1" \in DOMAIN property_data_cache
    /\ property_lookup("p2").ret = last.args[1]["p2"]

\* the keys of the rows of a table that expire before t
ExpiredBefore(table, t) ==
    {k \in DOMAIN table : fromisoformat(table[k].expires_at) < t}

\* C13: clean_expired_cache deletes exactly the rows of gpt_analysis_cache and
\* of property_data_cache whose expires_at is before now, returns the number
\* of rows it deleted over both tables, and leaves every other row of both
\* tables and the whole of cache_stats as they were.
C13_SweepExact ==
    [][last'.op = "clean_expired_cache" =>
         LET gone_gpt == ExpiredBefore(gpt_analysis_cache, now)
             gone_prop == ExpiredBefore(property_data_cache, now)
         IN /\ DOMAIN gpt_analysis_cache' = (DOMAIN gpt_analysis_cache) \ gone_gpt
            /\ \A k \in DOMAIN gpt_analysis_cache' :
                  gpt_analysis_cache'[k] = gpt_analysis_cache[k]
            /\ DOMAIN property_data_cache' = (DOMAIN property_data_cache) \ gone_prop
            /\ \A k \in DOMAIN property_data_cache' :
                  property_data_cache'[k] = property_data_cache[k]
            /\ last'.ret = Cardinality(gone_gpt) + Cardinality(gone_prop)
            /\ cache_stats' = cache_stats
      ]_vars

\* a sweep over one expired and one live row in each table has returned 2 and
\* left the two live rows
C13_Witness ==
    /\ last.op = "clean_expired_cache"
    /\ last.ret = 2
    /\ Cardinality(DOMAIN gpt_analysis_cache) = 1
    /\ Cardinality(DOMAIN property_data_cache) = 1
    /\ ExpiredBefore(gpt_analysis_cache, now + 1) = {}
    /\ ExpiredBefore(property_data_cache, now + 1) = {}
    /\ cache_stats # EmptyDict

\* the step is a direct call of _update_stats
JustRecorded == last.op = "_update_stats"

\* C14: _update_stats with cache_hit = False leaves today's tokens_saved and
\* cost_saved at their previous value (0 when the call creates the row),
\* whatever tokens_saved argument is passed.
C14_TokensOnlyOnHits ==
    [][(JustRecorded' /\ ~last'.args[2]) =>
          /\ StatOn(cache_stats', now, "tokens_saved")
                = StatOn(cache_stats, now, "tokens_saved")
          /\ StatOn(cache_stats', now, "cost_saved")
                = StatOn(cache_stats, now, "cost_saved")
      ]_vars

\* C15: in the row of a date, api_calls, cache_hits and tokens_saved never
\* decrease, and a row once created is never deleted.
C15_CountersMonotone ==
    [][\A d \in DOMAIN cache_stats :
          /\ d \in DOMAIN cache_stats'
          /\ cache_stats'[d].api_calls >= cache_stats[d].api_calls
          /\ cache_stats'[d].cache_hits >= cache_stats[d].cache_hits
          /\ cache_stats'[d].tokens_saved >= cache_stats[d].tokens_saved
      ]_vars

\* an event has just been added to a row that already counted one, on the
\* second date that has a row
C15_Witness ==
    /\ JustRecorded
    /\ Cardinality(DOMAIN cache_stats) = 2
    /\ StatOn(cache_stats, now, "api_calls")
          + StatOn(cache_stats, now, "cache_hits") >= 2
    /\ StatOn(cache_stats, now, "tokens_saved") > 0

\* the step records an event: a direct _update_stats, a put that returned
\* True, or a get that returned a value
EventRecorded ==
    \/ JustRecorded
    \/ JustStoredAnalysis
    \/ (JustGotAnalysis /\ IsValue(last.ret))

\* C16: _update_stats on a date without a row creates the row with api_calls =
\* 1 if api_call else 0 and cache_hits = 1 if cache_hit else 0; on a date with
\* a row an api_call event adds 1 to api_calls and leaves cache_hits, a
\* cache_hit event adds 1 to cache_hits and tokens_saved to tokens_saved and
\* leaves api_calls; the rows of other dates are left alone, and a step adds a
\* row for today exactly when it records an event on a date without one, so a
\* date has a row exactly when an event was recorded on it.
C16_RecordEventUpsert ==
    [][LET today == strftime(now)
       IN /\ DOMAIN cache_stats' =
                (DOMAIN cache_stats)
                   \cup (IF EventRecorded' THEN {today} ELSE {})
          /\ JustRecorded' =>
                LET api_call == last'.args[1]
                    cache_hit == last'.args[2]
                    row == cache_stats'[today]
                IN /\ \A d \in (DOMAIN cache_stats) \ {today} :
                         cache_stats'[d] = cache_stats[d]
                   /\ IF today \notin DOMAIN cache_stats
                      THEN /\ row.api_calls = (IF api_call THEN 1 ELSE 0)
                           /\ row.cache_hits = (IF cache_hit THEN 1 ELSE 0)
                      ELSE LET old == cache_stats[today]
                           IN /\ (api_call /\ ~cache_hit) =>
                                    /\ row.api_calls = old.api_calls + 1
                                    /\ row.cache_hits = old.cache_hits
                              /\ (cache_hit /\ ~api_call) =>
                                    /\ row.cache_hits = old.cache_hits + 1
                                    /\ row.tokens_saved
                                          = old.tokens_saved + last'.args[3]
                                    /\ row.api_calls = old.api_calls
      ]_vars

\* a cache_hit event with tokens has just been added to a row that an
\* api_call event created
C16_Witness ==
    /\ JustRecorded
    /\ last.args = <<FALSE, TRUE, 3>>
    /\ StatOn(cache_stats, now, "api_calls") = 1
    /\ StatOn(cache_stats, now, "cache_hits") = 1
    /\ StatOn(cache_stats, now, "tokens_saved") = 3

\* the last date a row can carry
LastDate == strftime(MaxTime)

RECURSIVE SumDates(_, _, _, _)
\* the sum of a column over the dates lo .. hi, a date without a row counting 0
SumDates(stats, lo, hi, col) ==
    IF lo > hi
    THEN 0
    ELSE (IF lo \in DOMAIN stats THEN stats[lo][col] ELSE 0)
            + SumDates(stats, lo + 1, hi, col)

\* C17: get_stats(days) returns for api_calls, cache_hits and tokens_saved the
\* sum of the column over the rows dated today - days or later (0 without
\* such a row), total_requests = api_calls + cache_hits, and hit_rate =
\* cache_hits / total_requests, 0 when total_requests = 0; get_stats(0)
\* counts today's row only.
C17_StatsWindow ==
    last.op = "get_stats" =>
        LET days == last.args[1]
            today == strftime(now)
            r == last.ret
        IN /\ r.api_calls = SumDates(cache_stats, today - days, LastDate, "api_calls")
           /\ r.cache_hits = SumDates(cache_stats, today - days, LastDate, "cache_hits")
           /\ r.tokens_saved = SumDates(cache_stats, today - days, LastDate, "tokens_saved")
           /\ r.total_requests = r.api_calls + r.cache_hits
           /\ r.hit_rate[1] * r.total_requests = r.cache_hits * r.hit_rate[2]
           /\ r.hit_rate[2] > 0
           /\ r.total_requests = 0 => r.hit_rate[1] = 0
           /\ days = 0 =>
                 /\ r.api_calls = StatOn(cache_stats, now, "api_calls")
                 /\ r.cache_hits = StatOn(cache_stats, now, "cache_hits")
                 /\ r.tokens_saved = StatOn(cache_stats, now, "tokens_saved")

\* get_stats(0) has just left out the row of the day before, which counts
\* events, and reported the hit rate of today's row
C17_Witness ==
    /\ last.op = "get_stats"
    /\ last.args = <<0>>
    /\ Cardinality(DOMAIN cache_stats) = 2
    /\ TotalEvents(cache_stats) > last.ret.total_requests
    /\ last.ret.cache_hits > 0
    /\ last.ret.api_calls > 0

\* C19: a successful cache_gpt_analysis whose fingerprint already has a row
\* replaces the row's payload, token_count, created_at and expires_at (the
\* new now + ttl) and the memory-cache entry, so that the next
\* get_gpt_analysis returns the new payload.  (The table is keyed by
\* content_hash, one row per fingerprint; the ttl_days = 0 argument is the
\* subject of C20.)
C19_InsertOrReplace ==
    [][\A k \in AnalysisKeys :
          (/\ JustStoredAnalysis'
           /\ last'.args[1] = k[1]
           /\ last'.args[2] = k[2]
           /\ compute_hash(k[1] \o k[2]) \in DOMAIN gpt_analysis_cache
           /\ last'.args[5] # <<0>>) =>
             LET h == compute_hash(k[1] \o k[2])
                 ttl == IF last'.args[5] = <<>> THEN TtlDays ELSE last'.args[5][1]
                 row == gpt_analysis_cache'[h]
             IN /\ loads(row.response_data) = last'.args[3]
                /\ row.token_count = last'.args[4]
                /\ fromisoformat(row.created_at) = now
                /\ fromisoformat(row.expires_at) = now + ttl * TicksPerDay
                /\ memory_cache'[h] = last'.args[3]
                /\ memory_cache_ttl'[h] = now + ttl * TicksPerDay
                /\ analysis_lookup(k[1], k[2])'.ret = last'.args[3]
      ]_vars

\* result r2 with 3 tokens has just replaced the only row, which a durable
\* hit had shown to carry 2 tokens (result r1)
C19_Witness ==
    /\ JustStoredAnalysis
    /\ last.path = <<"stored", "replaced">>
    /\ last.args[3] = Obj("r2")
    /\ now = 0
    /\ Cardinality(DOMAIN gpt_analysis_cache) = 1
    /\ StatOn(cache_stats, now, "tokens_saved") = 2
    /\ analysis_lookup(last.args[1], last.args[2]).ret = Obj("r2")

\* the ttl the caller asked for: the ttl_days argument when one is given,
\* the configured default otherwise
RequestedTtl(ttl_days) == IF ttl_days = <<>> THEN TtlDays ELSE ttl_days[1]

\* C20: after a successful cache_gpt_analysis or cache_property_data the
\* stored expires_at is created_at + t days, t being the ttl_days argument
\* whenever one is given (0 included) and the configured ttl_days otherwise.
C20_TtlSelection ==
    /\ JustStoredAnalysis =>
          LET row == gpt_analysis_cache[compute_hash(last.args[1] \o last.args[2])]
          IN fromisoformat(row.expires_at)
                = fromisoformat(row.created_at)
                     + RequestedTtl(last.args[5]) * TicksPerDay
    /\ (last.op = "cache_property_data" /\ last.ret = TRUE) =>
          LET row == property_data_cache[last.args[1]]
          IN fromisoformat(row.expires_at)
                = fromisoformat(row.created_at)
                     + RequestedTtl(last.args[4]) * TicksPerDay

\* the committed table once the open bulk_cache_properties has committed
BulkPost ==
    BulkOutcome(bulk.pre, bulk.properties, bulk.source_url, bulk.t).table

\* C12: a reader of property_data_cache that runs while bulk_cache_properties
\* is between its BEGIN TRANSACTION and its return sees the table without any
\* row of the batch or with every row the batch inserts, never with some of
\* them only.
C12_BulkAtomicVisibility ==
    (last.op = "select_properties" /\ bulk.pc = "open") =>
        \/ last.ret = bulk.pre
        \/ last.ret = BulkPost

\* a reader has run while the transaction had inserted the first of the two
\* rows it will commit
C12_Witness ==
    /\ last.op = "select_properties"
    /\ bulk.pc = "open"
    /\ bulk.acc.success_count = 1
    /\ Len(bulk.ids) = 1
    /\ CanPickle(bulk.properties[Head(bulk.ids)])
    /\ bulk.acc.table # bulk.pre
    /\ BulkPost # bulk.acc.table

\* the call that just returned was struck by a failure
Faulted == Len(last.path) = 2 /\ last.path[1] \in Faults

\* the call that just returned is a get / a put of one item
JustGot == last.op \in {"get_gpt_analysis", "get_property_data"}
JustPut == last.op \in {"cache_gpt_analysis", "cache_property_data"}

\* C18 as stated: a public operation struck by a failure of the storage layer
\* or of the serializer does not raise; a get returns None, as on a miss, and
\* a put returns False.
C18_FailureIsAbsence ==
    Faulted =>
        /\ last.path[2] = "returned"
        /\ JustGot => last.ret = None
        /\ JustPut => last.ret = FALSE

\* C18, amended: a public operation struck by a failure of the storage layer
\* or of the serializer does not raise.  When the failure strikes the
\* operation's own statements or its (de)serialization, a get returns None,
\* as on a miss, and a put returns False; a get_gpt_analysis served from the
\* memory cache still returns the cached result, and a failure confined to
\* the statistics update leaves the operation's result as without it.
C18_FailureBoundary ==
    [][Faulted' =>
         /\ last'.path[2] = "returned"
         /\ last'.op = "get_gpt_analysis" =>
               LET ok == analysis_lookup(last'.args[1], last'.args[2])
               IN IF ok.path = <<"hit", "skipped">> \/ last'.path[1] = "stats"
                  THEN last'.ret = ok.ret
                  ELSE last'.ret = None
         /\ last'.op = "cache_gpt_analysis" =>
               last'.ret = (last'.path[1] = "stats")
         /\ last'.op = "get_property_data" => last'.ret = None
         /\ last'.op = "cache_property_data" => last'.ret = FALSE
      ]_vars

\* a get of a live row of the table has just returned None because the
\* database failed
C18_Witness ==
    /\ Faulted
    /\ last.op = "get_gpt_analysis"
    /\ last.path = <<"db", "returned">>
    /\ last.ret = None
    /\ analysis_lookup(last.args[1], last.args[2]).path = <<"none", "hit">>

\* the step is a put of property id: a cache_property_data(id, ...) that
\* returned True or a bulk_cache_properties whose batch holds id
PutsProperty(call, id) ==
    \/ call.op = "cache_property_data" /\ call.args[1] = id /\ call.ret = TRUE
    \/ call.op = "bulk_cache_properties" /\ id \in DOMAIN call.args[1]

\* C21: a get_property_data(id) that finds a live row returns the stored
\* payload and sets last_accessed of that row to now, leaving its data,
\* source_url, created_at and expires_at and every other row as they were;
\* no step other than a get that returns a value, or a put, changes the
\* last_accessed of a row.
C21_LastAccessed ==
    [][/\ \A id \in PropertyIds :
             (/\ last'.op = "get_property_data"
              /\ last'.args = <<id>>
              /\ id \in DOMAIN property_data_cache
              /\ now < fromisoformat(property_data_cache[id].expires_at)) =>
                /\ last'.ret = loads(property_data_cache[id].data)
                /\ DOMAIN property_data_cache' = DOMAIN property_data_cache
                /\ property_data_cache'[id] =
                      [property_data_cache[id] EXCEPT
                          !.last_accessed = isoformat(now)]
                /\ \A other \in (DOMAIN property_data_cache) \ {id} :
                      property_data_cache'[other] = property_data_cache[other]
       /\ \A id \in (DOMAIN property_data_cache) \cap (DOMAIN property_data_cache') :
             property_data_cache'[id].last_accessed
                   # property_data_cache[id].last_accessed =>
                \/ /\ last'.op = "get_property_data"
                   /\ last'.args = <<id>>
                   /\ IsValue(last'.ret)
                \/ PutsProperty(last', id)
      ]_vars

\* a get has just returned the payload of a row stored at an earlier time,
\* whose last_accessed is now later than its created_at, next to another row
C21_Witness ==
    /\ JustGotProperty
    /\ IsValue(last.ret)
    /\ Cardinality(DOMAIN property_data_cache) = 2
    /\ LET row == property_data_cache[last.args[1]]
       IN /\ fromisoformat(row.last_accessed) = now
          /\ fromisoformat(row.created_at) < now

\* C22: after a successful cache_property_data(id, p, url) a get_property_data
\* (id) returns p; a cache_property_data or bulk_cache_properties for an id
\* that has a row replaces the payload, the source_url and the expiry of that
\* row (the new now + ttl), and the rows of the ids it does not store stay.
\* (The table is keyed by property_id, one row per id; the expiry under
\* ttl_days = 0 is the subject of C20.)
C22_EntityUpsert ==
    [][\A id \in PropertyIds :
          /\ (/\ last'.op = "cache_property_data"
              /\ last'.ret = TRUE
              /\ last'.args[1] = id) =>
                LET row == property_data_cache'[id]
                IN /\ property_lookup(id)'.ret = last'.args[2]
                   /\ loads(row.data) = last'.args[2]
                   /\ row.source_url = last'.args[3]
                   /\ fromisoformat(row.created_at) = now
                   /\ last'.args[4] # <<0>> =>
                         fromisoformat(row.expires_at)
                            = now + RequestedTtl(last'.args[4]) * TicksPerDay
                   /\ DOMAIN property_data_cache' =
                         (DOMAIN property_data_cache) \cup {id}
                   /\ \A other \in (DOMAIN property_data_cache) \ {id} :
                         property_data_cache'[other] = property_data_cache[other]
          /\ (/\ last'.op = "bulk_cache_properties"
              /\ id \in DOMAIN last'.args[1]
              /\ CanPickle(last'.args[1][id])) =>
                LET row == property_data_cache'[id]
                IN /\ loads(row.data) = last'.args[1][id]
                   /\ row.source_url = last'.args[2]
                   /\ fromisoformat(row.expires_at) = now + TtlDays * TicksPerDay
      ]_vars

\* a put has just replaced the row of an id by a row with another payload
\* source and expiry than the default ones, and get returns the new payload
C22_Witness ==
    /\ last.op = "cache_property_data"
    /\ last.path = <<"stored", "replaced">>
    /\ last.args[2] = Obj("d2")
    /\ now > 0
    /\ property_lookup(last.args[1]).ret = Obj("d2")
    /\ property_data_cache[last.args[1]].source_url = "u2"
    /\ Cardinality(DOMAIN property_data_cache) = 2

\* the call that just returned is an entity operation
JustEntityOp ==
    last.op \in {"get_property_data", "cache_property_data",
                 "bulk_cache_properties"}

\* C23: get_property_data, cache_property_data and bulk_cache_properties
\* leave the memory cache, gpt_analysis_cache and cache_stats as they were,
\* whether they hit, miss, find the row expired or fail.
C23_EntityBypass ==
    [][JustEntityOp' =>
          /\ memory_cache' = memory_cache
          /\ memory_cache_ttl' = memory_cache_ttl
          /\ gpt_analysis_cache' = gpt_analysis_cache
          /\ cache_stats' = cache_stats
      ]_vars

\* an entity read has just hit while the memory cache, the analysis table and
\* the statistics hold entries
C23_Witness ==
    /\ JustGotProperty
    /\ last.path = <<"hit">>
    /\ memory_cache # EmptyDict
    /\ gpt_analysis_cache # EmptyDict
    /\ TotalEvents(cache_stats) > 0

\* the ids of a batch whose row in the table is the row the batch writes at
\* time t
BatchRows(table, properties, source_url, t) ==
    {id \in DOMAIN properties :
        /\ CanPickle(properties[id])
        /\ id \in DOMAIN table
        /\ table[id] = PropertyRow(properties[id], source_url, t,
                                   PlusDays(t, TtlDays))}

\* C30: the success_count bulk_cache_properties returns is the number of
\* entities of the batch that are committed to property_data_cache when the
\* call returns, also when the connection, an INSERT or the COMMIT fails.
C30_SuccessCountCommitted ==
    [][last'.op = "bulk_cache_properties" =>
          last'.ret[1] =
             Cardinality(BatchRows(property_data_cache', last'.args[1],
                                   last'.args[2], now))
      ]_vars

C25_RestartKeepsRows ==
    [][last'.op = "__init__" =>
          /\ gpt_analysis_cache' = gpt_analysis_cache
          /\ property_data_cache' = property_data_cache
          /\ cache_stats' = cache_stats
          /\ memory_cache' = EmptyDict
          /\ memory_cache_ttl' = EmptyDict
          /\ \A k \in AnalysisKeys :
                LET h == compute_hash(k[1] \o k[2])
                IN (/\ h \in DOMAIN gpt_analysis_cache
                    /\ gpt_analysis_cache[h].model = k[2]
                    /\ now < fromisoformat(gpt_analysis_cache[h].expires_at)) =>
                      analysis_lookup(k[1], k[2])'.ret
                         = loads(gpt_analysis_cache[h].response_data)
          /\ \A id \in PropertyIds :
                (/\ id \in DOMAIN property_data_cache
                 /\ now < fromisoformat(property_data_cache[id].expires_at)) =>
                      property_lookup(id)'.ret
                         = loads(property_data_cache[id].data)
      ]_vars

\* a facade has just been constructed on a database that holds a live
\* analysis row, a live property row and a statistics row
C25_Witness ==
    /\ last.op = "__init__"
    /\ now > 0
    /\ memory_cache = EmptyDict
    /\ \E h \in DOMAIN gpt_analysis_cache :
          now < fromisoformat(gpt_analysis_cache[h].expires_at)
    /\ \E id \in DOMAIN property_data_cache :
          now < fromisoformat(property_data_cache[id].expires_at)
    /\ cache_stats # EmptyDict

\* C26: clear_memory_cache empties memory_cache and memory_cache_ttl, reports
\* the number of entries removed, changes no table, and every
\* get_gpt_analysis that returned a value before the clear returns the same
\* value after it.
C26_ClearKeepsAnswers ==
    [][last'.op = "clear_memory_cache" =>
          /\ memory_cache' = EmptyDict
          /\ memory_cache_ttl' = EmptyDict
          /\ Len(last'.path) = Cardinality(DOMAIN memory_cache)
          /\ gpt_analysis_cache' = gpt_analysis_cache
          /\ property_data_cache' = property_data_cache
          /\ cache_stats' = cache_stats
          /\ \A k \in AnalysisKeys :
                IsValue(analysis_lookup(k[1], k[2]).ret) =>
                   analysis_lookup(k[1], k[2])'.ret
                      = analysis_lookup(k[1], k[2]).ret
      ]_vars

\* the same statement for the requests whose (content, model) pair is the
\* pair the stored row was written for
C26_ClearKeepsOwnAnswers ==
    [][last'.op = "clear_memory_cache" =>
          /\ memory_cache' = EmptyDict
          /\ memory_cache_ttl' = EmptyDict
          /\ Len(last'.path) = Cardinality(DOMAIN memory_cache)
          /\ gpt_analysis_cache' = gpt_analysis_cache
          /\ property_data_cache' = property_data_cache
          /\ cache_stats' = cache_stats
          /\ \A k \in AnalysisKeys :
                LET h == compute_hash(k[1] \o k[2])
                IN (/\ IsValue(analysis_lookup(k[1], k[2]).ret)
                    /\ h \in DOMAIN gpt_analysis_cache
                    /\ gpt_analysis_cache[h].model = k[2]) =>
                      analysis_lookup(k[1], k[2])'.ret
                         = analysis_lookup(k[1], k[2]).ret
      ]_vars

OverwritesAnalysis(h) ==
    /\ now' = now
    /\ last'.op = "cache_gpt_analysis"
    /\ compute_hash(last'.args[1] \o last'.args[2]) = h

\* the step is a put or a bulk put that writes the row of property id
OverwritesProperty(id) ==
    /\ now' = now
    /\ \/ last'.op = "cache_property_data" /\ last'.args[1] = id
       \/ last'.op = "bulk_cache_properties" /\ id \in DOMAIN last'.args[1]

\* C28: the lifetime of an entry is fixed when it is put.  A step that does
\* not overwrite a row (a get, a promotion, clear_memory_cache, a sweep, a
\* clock tick) leaves its expires_at as it was, and leaves the row with its
\* payload in the table while now < expires_at; the expiry kept in memory is
\* that of the row; a get returns the payload of the row when
\* now < expires_at and None when now >= expires_at.
C28_FixedLifetime ==
    [][/\ \A h \in DOMAIN gpt_analysis_cache :
             ~OverwritesAnalysis(h) =>
                LET row == gpt_analysis_cache[h]
                IN /\ h \in DOMAIN gpt_analysis_cache' =>
                         /\ gpt_analysis_cache'[h].expires_at = row.expires_at
                         /\ gpt_analysis_cache'[h].response_data = row.response_data
                   /\ now' < fromisoformat(row.expires_at) =>
                         h \in DOMAIN gpt_analysis_cache'
       /\ \A id \in DOMAIN property_data_cache :
             ~OverwritesProperty(id) =>
                LET row == property_data_cache[id]
                IN /\ id \in DOMAIN property_data_cache' =>
                         /\ property_data_cache'[id].expires_at = row.expires_at
                         /\ property_data_cache'[id].data = row.data
                   /\ now' < fromisoformat(row.expires_at) =>
                         id \in DOMAIN property_data_cache'
       /\ \A h \in (DOMAIN memory_cache_ttl') \cap (DOMAIN gpt_analysis_cache') :
             memory_cache_ttl'[h] = fromisoformat(gpt_analysis_cache'[h].expires_at)
       /\ \A k \in AnalysisKeys :
             (now' = now /\ last'.op = "get_gpt_analysis" /\ last'.args = k) =>
                LET h == compute_hash(k[1] \o k[2])
                IN IF h \in DOMAIN gpt_analysis_cache
                   THEN LET row == gpt_analysis_cache[h]
                        IN /\ (row.model = k[2] /\ now < fromisoformat(row.expires_at))
                                => last'.ret = loads(row.response_data)
                           /\ now >= fromisoformat(row.expires_at)
                                => last'.ret = None
                   ELSE last'.ret = None
       /\ \A id \in PropertyIds :
             (now' = now /\ last'.op = "get_property_data" /\ last'.args = <<id>>) =>
                IF id \in DOMAIN property_data_cache
                THEN LET row == property_data_cache[id]
                     IN last'.ret = (IF now < fromisoformat(row.expires_at)
                                     THEN loads(row.data) ELSE None)
                ELSE last'.ret = None
      ]_vars

\* a get has returned the payload of a property row at the last instant
\* before its expiry; the row was created before and still expires one day
\* after its creation, and the memory cache holds a live analysis
C28_Witness ==
    /\ JustGotProperty
    /\ IsValue(last.ret)
    /\ LET row == property_data_cache[last.args[1]]
       IN /\ fromisoformat(row.expires_at) = now + 1
          /\ fromisoformat(row.created_at) < now
          /\ fromisoformat(row.expires_at)
                = PlusDays(fromisoformat(row.created_at), TtlDays)
    /\ \E h \in DOMAIN memory_cache_ttl : memory_cache_ttl[h] > now

\* the (content, model) pairs whose row in the analysis table is the row of
\* digest h
PairsOf(table, h) ==
    {k \in AnalysisKeys : compute_hash(k[1] \o k[2]) = h /\ table[h].model = k[2]}

\* C29, as stated: right after clean_expired_cache run at now, a get at the
\* same now returns the payload of every row that remains in
\* gpt_analysis_cache and in property_data_cache.
C29_SweepAgreesWithGet ==
    [][(last'.op = "clean_expired_cache" /\ now' = now) =>
          /\ \A h \in DOMAIN gpt_analysis_cache' :
                \A k \in PairsOf(gpt_analysis_cache', h) :
                   analysis_lookup(k[1], k[2])'.ret
                      = loads(gpt_analysis_cache'[h].response_data)
          /\ \A id \in PropertyIds :
                id \in DOMAIN property_data_cache' =>
                   property_lookup(id)'.ret
                      = loads(property_data_cache'[id].data)
      ]_vars

\* C29, amended: right after clean_expired_cache run at now, no remaining row
\* has expires_at < now and every row with expires_at >= now remains; a get at
\* the same now returns the payload of a remaining row with expires_at > now
\* and None for a remaining row with expires_at = now.
C29_SweepKeepsBoundary ==
    [][(last'.op = "clean_expired_cache" /\ now' = now) =>
          /\ ExpiredBefore(gpt_analysis_cache', now) = {}
          /\ ExpiredBefore(property_data_cache', now) = {}
          /\ \A h \in DOMAIN gpt_analysis_cache :
                fromisoformat(gpt_analysis_cache[h].expires_at) >= now =>
                   h \in DOMAIN gpt_analysis_cache'
          /\ \A id \in DOMAIN property_data_cache :
                fromisoformat(property_data_cache[id].expires_at) >= now =>
                   id \in DOMAIN property_data_cache'
          /\ \A h \in DOMAIN gpt_analysis_cache' :
                \A k \in PairsOf(gpt_analysis_cache', h) :
                   analysis_lookup(k[1], k[2])'.ret
                      = (IF fromisoformat(gpt_analysis_cache'[h].expires_at) > now
                         THEN loads(gpt_analysis_cache'[h].response_data)
                         ELSE None)
          /\ \A id \in PropertyIds :
                id \in DOMAIN property_data_cache' =>
                   property_lookup(id)'.ret
                      = (IF fromisoformat(property_data_cache'[id].expires_at) > now
                         THEN loads(property_data_cache'[id].data)
                         ELSE None)
      ]_vars

\* a sweep has deleted a row and left, in each table, a row that expires at
\* this very instant
C29_Witness ==
    /\ last.op = "clean_expired_cache"
    /\ last.ret >= 1
    /\ ExpiredBefore(gpt_analysis_cache, now) = {}
    /\ ExpiredBefore(property_data_cache, now) = {}
    /\ \E h \in DOMAIN gpt_analysis_cache :
          fromisoformat(gpt_analysis_cache[h].expires_at) = now
    /\ \E id \in DOMAIN property_data_cache :
          fromisoformat(property_data_cache[id].expires_at) = now

\* the ttl (in days) a caller may want for a batch; bulk_cache_properties
\* has no parameter to receive it
BatchTtls == {1, 2}

\* the rows a bulk_cache_properties call has just written
BatchWritten == {id \in DOMAIN last'.args[1] : CanPickle(last'.args[1][id])}

\* C31: all rows written by one bulk_cache_properties call carry the same
\* created_at and the same expires_at, and that expires_at is created_at plus
\* the ttl the caller supplies for the batch, whichever ttl that is.
C31_BatchTtl ==
    [][(last'.op = "bulk_cache_properties" /\ now' = now) =>
          \A ttl_days \in BatchTtls :
             \A id \in BatchWritten :
                /\ property_data_cache'[id].created_at = isoformat(now)
                /\ property_data_cache'[id].expires_at
                      = isoformat(PlusDays(now, ttl_days))
      ]_vars

\* the same with the ttl_days of the facade in the place of a ttl of the
\* batch
C31_BatchDefaultTtl ==
    [][(last'.op = "bulk_cache_properties" /\ now' = now) =>
          \A id \in BatchWritten :
             /\ property_data_cache'[id].created_at = isoformat(now)
             /\ property_data_cache'[id].expires_at
                   = isoformat(PlusDays(now, TtlDays))
      ]_vars

\* C32: a cache_gpt_analysis or cache_property_data that returns False leaves
\* both tables, both maps of the memory cache and every statistics counter as
\* they were before the call: no row is written, no api call is counted and
\* no memory entry is created.
C32_FailedPutChangesNothing ==
    [][(JustPut' /\ now' = now /\ last'.ret = FALSE) =>
          /\ gpt_analysis_cache' = gpt_analysis_cache
          /\ property_data_cache' = property_data_cache
          /\ memory_cache' = memory_cache
          /\ memory_cache_ttl' = memory_cache_ttl
          /\ cache_stats' = cache_stats
      ]_vars

\* a cache_gpt_analysis has failed on the database at a time when the memory
\* cache was empty, the table held the row of an earlier put and the api call
\* of that put was counted
C32_Witness ==
    /\ last.op = "cache_gpt_analysis"
    /\ last.ret = FALSE
    /\ last.path[1] = "db"
    /\ memory_cache = EmptyDict
    /\ gpt_analysis_cache # EmptyDict
    /\ StatOn(cache_stats, now, "api_calls") = 1

\* C33: in every state of a facade used sequentially, each entry of the
\* memory cache whose expiry is still in the future has a row of
\* gpt_analysis_cache under the same content_hash, with an equal payload and
\* the same expires_at.
C33_MemoryCoherent ==
    \A h \in DOMAIN memory_cache :
       (h \in DOMAIN memory_cache_ttl /\ now < memory_cache_ttl[h]) =>
          /\ h \in DOMAIN gpt_analysis_cache
          /\ loads(gpt_analysis_cache[h].response_data) = memory_cache[h]
          /\ fromisoformat(gpt_analysis_cache[h].expires_at) = memory_cache_ttl[h]

\* after a sweep the memory cache holds two live entries of different
\* payload and expiry, one of them written by a replacing put
C33_Witness ==
    /\ last.op = "clean_expired_cache"
    /\ now > 0
    /\ Cardinality(DOMAIN memory_cache) = 2
    /\ \A h \in DOMAIN memory_cache : now < memory_cache_ttl[h]
    /\ \E h1, h2 \in DOMAIN memory_cache :
          /\ memory_cache[h1] # memory_cache[h2]
          /\ memory_cache_ttl[h1] # memory_cache_ttl[h2]
          /\ fromisoformat(gpt_analysis_cache[h1].created_at) > 0

\* C34: after every public operation of a facade used sequentially the keys
\* of memory_cache are the keys of memory_cache_ttl.
C34_MapsPaired == DOMAIN memory_cache = DOMAIN memory_cache_ttl

\* clear_memory_cache has just released two entries and left both maps empty
C34_Witness ==
    /\ last.op = "clear_memory_cache"
    /\ Len(last.path) = 2
    /\ memory_cache = EmptyDict
    /\ memory_cache_ttl = EmptyDict
    /\ Cardinality(DOMAIN gpt_analysis_cache) = 2

\* the call of thread t returns (or raises) in this step
ThreadReturning(t) == threads[t].pc # "idle" /\ threads'[t].pc = "idle"

\* no thread is in a call
AllIdle == \A t \in Threads : threads[t].pc = "idle"

\* C35: when two threads interleave get_gpt_analysis, cache_gpt_analysis and
\* clear_memory_cache on one facade for the same key, no call raises, a get
\* answered from memory returns a value whose expiry is present and in the
\* future, and once both threads are out of their calls the keys of
\* memory_cache are the keys of memory_cache_ttl.
C35_ThreadSafe ==
    [][\A t \in Threads :
          ThreadReturning(t) =>
             /\ last'.op = "get_gpt_analysis" => last'.ret[1] # "KeyError"
             /\ (last'.op = "get_gpt_analysis" /\ last'.path = <<"hit", "skipped">>) =>
                   /\ HashOf(t) \in DOMAIN memory_cache_ttl
                   /\ now < memory_cache_ttl[HashOf(t)]
             /\ AllIdle' => DOMAIN memory_cache' = DOMAIN memory_cache_ttl'
      ]_vars

\* C36: lazy deletion never destroys a fresh entry.  When a get_gpt_analysis
\* that has read an expired row runs its DELETE after a concurrent
\* cache_gpt_analysis for the same key has committed, the row that put wrote
\* stays in gpt_analysis_cache: the DELETE of a get never removes a row that
\* has not expired.
C36_LazyDeleteKeepsFresh ==
    [][\A t \in Threads :
          (threads[t].pc = "delete" /\ ThreadReturning(t)) =>
             \A h \in DOMAIN gpt_analysis_cache :
                now < fromisoformat(gpt_analysis_cache[h].expires_at) =>
                   /\ h \in DOMAIN gpt_analysis_cache'
                   /\ gpt_analysis_cache'[h] = gpt_analysis_cache[h]
      ]_vars

\* the value of a column on a date; 0 when the date has no row
StatOfDate(stats, d, col) == IF d \in DOMAIN stats THEN stats[d][col] ELSE 0

\* C37: no statistics event is lost when two callers record events at the
\* same time, the first two events of a day included: every _update_stats
\* with api_call adds 1 to the api_calls of its day and every _update_stats
\* with cache_hit adds 1 to the cache_hits of its day, so that once the calls
\* have returned the counters equal the numbers of events recorded.
C37_NoEventLost ==
    [][\A t \in Threads :
          (threads[t].op = "_update_stats" /\ ThreadReturning(t)) =>
             LET today == threads[t].loc[1]
                 a == threads[t].args
             IN /\ StatOfDate(cache_stats', today, "api_calls")
                      = StatOfDate(cache_stats, today, "api_calls")
                        + (IF a[1] THEN 1 ELSE 0)
                /\ StatOfDate(cache_stats', today, "cache_hits")
                      = StatOfDate(cache_stats, today, "cache_hits")
                        + (IF a[2] THEN 1 ELSE 0)
      ]_vars

\* the same for the events that find the row of their day at their SELECT
C37_NoUpdateLost ==
    [][\A t \in Threads :
          (threads[t].pc = "stats_update" /\ ThreadReturning(t)) =>
             LET today == threads[t].loc[1]
                 a == threads[t].args
             IN /\ StatOfDate(cache_stats', today, "api_calls")
                      = StatOfDate(cache_stats, today, "api_calls")
                        + (IF a[1] THEN 1 ELSE 0)
                /\ StatOfDate(cache_stats', today, "cache_hits")
                      = StatOfDate(cache_stats, today, "cache_hits")
                        + (IF a[2] THEN 1 ELSE 0)
      ]_vars

\* the last call, when it is a request to analyze_property_info
Analyzed == last.op = "analyze_property_info"

\* the request starts at model gpt-4o with force_refresh false and its remote
\* call for gpt-4o is made and fails
FallsBackFrom4o ==
    /\ Analyzed
    /\ last.args.model = "gpt-4o"
    /\ ~last.args.force_refresh
    /\ last.path.calls # <<>>
    /\ last.args.gpt_client["gpt-4o"] = Fail

\* C38: model fallback of analyze_property_info: when the remote call fails
\* for gpt-4o (force_refresh false) gpt-4o-mini is tried; when gpt-4o-mini
\* fails as well gpt-3.5-turbo is tried before the error is raised; the chain
\* ends with a result or a raised error after at most one call per model.
C38_FallbackChain ==
    /\ FallsBackFrom4o =>
          /\ Len(last.path.calls) >= 2
          /\ last.path.calls[2] = "gpt-4o-mini"
          /\ last.args.gpt_client["gpt-4o-mini"] = Fail =>
                /\ Len(last.path.calls) >= 3
                /\ last.path.calls[3] = "gpt-3.5-turbo"
    /\ Analyzed =>
          /\ last.path.exit \in {"returned", "raised"}
          /\ \A i, j \in 1..Len(last.path.calls) :
                i # j => last.path.calls[i] # last.path.calls[j]

\* what the code does: from gpt-4o the chain is gpt-4o, gpt-4o-mini and ends
\* there; gpt-3.5-turbo is the fallback only of a request that starts at
\* gpt-4o-mini
C38_ChainAsCoded ==
    /\ FallsBackFrom4o =>
          /\ last.path.calls = <<"gpt-4o", "gpt-4o-mini">>
          /\ last.args.gpt_client["gpt-4o-mini"] = Fail =>
                last.path.exit = "raised"
    /\ Analyzed =>
          /\ last.path.exit \in {"returned", "raised"}
          /\ \A i, j \in 1..Len(last.path.calls) :
                i # j => last.path.calls[i] # last.path.calls[j]

\* the lookup a request made reported a hit
ReportedHit(read) == read[2] \in {<<"hit", "skipped">>, <<"none", "hit">>, <<"stale", "hit">>}

\* C39: deduplication in analyze_property_info: with the cache enabled and
\* force_refresh false, whenever the cache reports a hit for the optimized
\* content and model no remote call is made for the request and the cached
\* result is returned; with force_refresh true the cache is not read, and the
\* fresh result is written to the cache.
C39_Deduplicated ==
    Analyzed =>
       /\ (last.args.cache_enabled /\ ~last.args.force_refresh
           /\ last.path.reads # <<>> /\ ReportedHit(last.path.reads[1])) =>
             /\ last.path.calls = <<>>
             /\ last.path.exit = "returned"
             /\ last.ret = last.path.reads[1][3]
       /\ last.args.force_refresh =>
             /\ last.path.reads = <<>>
             /\ (last.args.cache_enabled /\ last.path.exit = "returned") =>
                   /\ Len(last.path.writes) = 1
                   /\ last.path.writes[1][2] = last.ret
                   /\ last.path.writes[1][3]

\* the same for the hits whose cached result is not empty
C39_DeduplicatedWhenTruthy ==
    Analyzed =>
       /\ (last.args.cache_enabled /\ ~last.args.force_refresh
           /\ last.path.reads # <<>> /\ ReportedHit(last.path.reads[1])
           /\ Truthy(last.path.reads[1][3])) =>
             /\ last.path.calls = <<>>
             /\ last.path.exit = "returned"
             /\ last.ret = last.path.reads[1][3]
       /\ last.args.force_refresh =>
             /\ last.path.reads = <<>>
             /\ (last.args.cache_enabled /\ last.path.exit = "returned") =>
                   /\ Len(last.path.writes) = 1
                   /\ last.path.writes[1][2] = last.ret
                   /\ last.path.writes[1][3]

====
